---------------------------- MODULE Spec2Model ----------------------------
(***************************************************************************)
(* Model of the Lennox S30 cloud client: the zone/system data model        *)
(* (LennoxZone, LennoxSystem) and the client core (LennoxS30Client:        *)
(* authenticate, login, token refresh, message pump, reconnect, shutdown). *)
(***************************************************************************)
EXTENDS Integers, Sequences, FiniteSets, TLC

(***************************************************************************)
(* Value conventions.  A JavaScript object with optional fields is a       *)
(* function whose DOMAIN is the set of fields that are present, so         *)
(* `x.f !== undefined` is  "f" \in DOMAIN x.  A `number | null` field      *)
(* holds NULL, an integer outside every numeric domain of the model.       *)
(* A `string | null` token holds NoToken.                                  *)
(***************************************************************************)
NULL == 0 - 999
NoToken == "null"
EmptyObj == <<>>

\* r with field f set to v (object spread / property assignment)
With(r, f, v) == [x \in DOMAIN r \cup {f} |-> IF x = f THEN v ELSE r[x]]

\* all objects of R, each also extended by an optional field f drawn from D
Opt(R, f, D) == R \cup {With(r, f, v) : r \in R, v \in D}

Has(obj, f) == f \in DOMAIN obj

(***************************************************************************)
(* LennoxZone                                                              *)
(*                                                                         *)
(* Fields modelled: for each of the three groups (config, status, period)  *)
(* one field per value type.  The other fields of the class are handled    *)
(* by the same `if (x !== undefined) this.x = x` statement.                *)
(***************************************************************************)
ConfigFields == {"name", "minCsp", "zoneEnabled"}
StatusFields == {"temperature", "fan"}
PeriodFields == {"systemMode", "fanMode", "hsp", "csp"}

\* new LennoxZone(id, name, systemId) with the field initialisers of the class
LennoxZone(id, name, systemId) ==
  [ id |-> id, name |-> name, systemId |-> systemId,
    systemName |-> "", productType |-> "S30", numberOfZones |-> 1,
    minCsp |-> 60,
    temperature |-> NULL, fan |-> FALSE,
    csp |-> 78, hsp |-> 68,
    systemMode |-> "off", fanMode |-> "auto",
    zoneEnabled |-> FALSE ]

isActive_truthy(z) == z.temperature # NULL /\ z.temperature # 0

\* LennoxZone.isActive
isActive(z) == z.temperature # NULL

\* the config block of updateFromData
updateConfig(z, c) ==
  LET z1 == IF Has(c, "name") THEN [z EXCEPT !.name = c.name] ELSE z
      z2 == IF Has(c, "minCsp") THEN [z1 EXCEPT !.minCsp = c.minCsp] ELSE z1
      z3 == IF Has(c, "zoneEnabled")
              THEN [z2 EXCEPT !.zoneEnabled = (c.zoneEnabled = 1)] ELSE z2
  IN z3

updatePeriod_modeGated(z, p) ==
  LET z1 == IF Has(p, "systemMode") THEN [z EXCEPT !.systemMode = p.systemMode] ELSE z
      z2 == IF Has(p, "fanMode") THEN [z1 EXCEPT !.fanMode = p.fanMode] ELSE z1
      z3 == IF Has(p, "csp") THEN [z2 EXCEPT !.csp = p.csp] ELSE z2
      z4 == IF Has(p, "hsp") /\ z.systemMode = "heat" THEN [z3 EXCEPT !.hsp = p.hsp] ELSE z3
  IN z4

\* the period block of updateFromData
updatePeriod(z, p) ==
  LET z1 == IF Has(p, "systemMode") THEN [z EXCEPT !.systemMode = p.systemMode] ELSE z
      z2 == IF Has(p, "fanMode") THEN [z1 EXCEPT !.fanMode = p.fanMode] ELSE z1
      z3 == IF Has(p, "csp") THEN [z2 EXCEPT !.csp = p.csp] ELSE z2
      z4 == IF Has(p, "hsp") THEN [z3 EXCEPT !.hsp = p.hsp] ELSE z3
  IN z4

updateStatus_clearsPeriod(z, s) ==
  LET z1 == IF Has(s, "temperature") THEN [z EXCEPT !.temperature = s.temperature] ELSE z
      z2 == IF Has(s, "fan") THEN [z1 EXCEPT !.fan = s.fan] ELSE z1
  IN IF Has(s, "period") THEN updatePeriod(z2, s.period)
     ELSE [z2 EXCEPT !.systemMode = "off", !.fanMode = "auto", !.csp = 78, !.hsp = 68]

\* the status block of updateFromData
updateStatus(z, s) ==
  LET z1 == IF Has(s, "temperature") THEN [z EXCEPT !.temperature = s.temperature] ELSE z
      z2 == IF Has(s, "fan") THEN [z1 EXCEPT !.fan = s.fan] ELSE z1
  IN IF Has(s, "period") THEN updatePeriod(z2, s.period) ELSE z2

\* LennoxZone.updateFromData
updateFromData(z, data) ==
  LET z1 == IF Has(data, "config") THEN updateConfig(z, data.config) ELSE z
  IN IF Has(data, "status") THEN updateStatus(z1, data.status) ELSE z1

(***************************************************************************)
(* LennoxSystem                                                            *)
(***************************************************************************)
\* JavaScript `undefined` read from a missing string / number property
UndefinedStr == "undefined"
UndefinedNum == 0 - 998

\* obj.f, or undefined when the property is missing
GetStr(obj, f) == IF Has(obj, f) THEN obj[f] ELSE UndefinedStr
GetNum(obj, f) == IF Has(obj, f) THEN obj[f] ELSE UndefinedNum

\* new LennoxSystem(sysId, name); zones is the Map<number, LennoxZone>
LennoxSystem(sysId, name) ==
  [ sysId |-> sysId, name |-> name, productType |-> "S30", temperatureUnit |-> "F",
    outdoorTemperature |-> 0, numberOfZones |-> 1, cloudStatus |-> "online",
    zones |-> EmptyObj ]

getActiveZones_all(system) == DOMAIN system.zones

\* LennoxSystem.getActiveZones, as the set of zone indices
getActiveZones(system) == {i \in DOMAIN system.zones : isActive(system.zones[i])}

getOrCreateZone_always(system, id) ==
  [system EXCEPT
     !.zones = With(@, id, LennoxZone(id, "Zone " \o ToString(id + 1), system.sysId))]

\* LennoxSystem.getOrCreateZone: the system after the call (the zone is zones[id])
getOrCreateZone(system, id) ==
  IF id \in DOMAIN system.zones THEN system
  ELSE [system EXCEPT
          !.zones = With(@, id, LennoxZone(id, "Zone " \o ToString(id + 1), system.sysId))]

\* LennoxSystem.updateFromConfig
updateFromConfig(system, config) ==
  LET s1 == [system EXCEPT !.name = GetStr(config, "name"),
                           !.temperatureUnit = GetStr(config, "temperatureUnit")]
  IN IF Has(config, "options")
       THEN [s1 EXCEPT !.productType =
               IF Has(config.options, "productType") /\ config.options.productType # ""
                 THEN config.options.productType ELSE "S30"]
       ELSE s1

\* LennoxSystem.updateFromStatus
updateFromStatus(system, status) ==
  [system EXCEPT !.outdoorTemperature = GetNum(status, "outdoorTemperature"),
                 !.numberOfZones = GetNum(status, "numberOfZones")]

(***************************************************************************)
(* LennoxS30Client: routing of retrieved messages into the data model.     *)
(* An update observer is "ok" (returns) or "throws".                       *)
(***************************************************************************)
Indices(n) == [i \in 1..n |-> i]

FirstThrower(cbs) ==
  IF \E i \in 1..Len(cbs) : cbs[i] = "throws"
    THEN CHOOSE i \in 1..Len(cbs) :
           cbs[i] = "throws" /\ \A j \in 1..(i - 1) : cbs[j] # "throws"
    ELSE 0

notifyCallbacks_noCatch(cbs) ==
  IF FirstThrower(cbs) = 0 THEN [calls |-> Indices(Len(cbs)), threw |-> FALSE]
  ELSE [calls |-> Indices(FirstThrower(cbs)), threw |-> TRUE]

\* the loop `for (const callback of this.updateCallbacks) try { callback(zone) } catch`:
\* the observers called (by position), and whether an exception left the loop
notifyCallbacks(cbs) == [calls |-> Indices(Len(cbs)), threw |-> FALSE]

zoneCallbacks_always(z, cbs) == notifyCallbacks(cbs)

\* `if (zone.isActive()) { ...callbacks... }` of processZonesData
zoneCallbacks(z, cbs) ==
  IF isActive(z) THEN notifyCallbacks(cbs) ELSE [calls |-> <<>>, threw |-> FALSE]

\* one iteration of the loop of LennoxS30Client.processZonesData: the zone after
\* the merge and the copy of the system info
mergedZone(system, zoneData) ==
  LET sys1 == getOrCreateZone(system, zoneData.id)
      z1 == updateFromData(sys1.zones[zoneData.id], zoneData)
  IN [z1 EXCEPT !.systemName = system.name, !.productType = system.productType,
                !.numberOfZones = system.numberOfZones]

\* LennoxS30Client.processZonesData from fragment k on: [system, log, threw], where
\* log has one entry per fragment applied
RECURSIVE processZonesData(_, _, _, _)
processZonesData(system, zones, k, cbs) ==
  IF k > Len(zones) THEN [system |-> system, log |-> <<>>, threw |-> FALSE]
  ELSE
    LET z == mergedZone(system, zones[k])
        sys1 == [getOrCreateZone(system, zones[k].id) EXCEPT !.zones[zones[k].id] = z]
        n == zoneCallbacks(z, cbs)
        entry == [sysId |-> system.sysId, id |-> zones[k].id,
                  temperature |-> z.temperature,
                  registered |-> Len(cbs), calls |-> n.calls]
    IN IF n.threw THEN [system |-> sys1, log |-> <<entry>>, threw |-> TRUE]
       ELSE LET rest == processZonesData(sys1, zones, k + 1, cbs)
            IN [system |-> rest.system, log |-> <<entry>> \o rest.log,
                threw |-> rest.threw]

\* LennoxS30Client.processMessage for a message of a known system
processMessage(system, message, cbs) ==
  IF ~Has(message, "Data") THEN [system |-> system, log |-> <<>>, threw |-> FALSE]
  ELSE
    LET data == message.Data
        s1 == IF Has(data, "system") /\ Has(data.system, "config")
                THEN updateFromConfig(system, data.system.config) ELSE system
        s2 == IF Has(data, "system") /\ Has(data.system, "status")
                THEN updateFromStatus(s1, data.system.status) ELSE s1
    IN IF Has(data, "zones") THEN processZonesData(s2, data.zones, 1, cbs)
       ELSE [system |-> s2, log |-> <<>>, threw |-> FALSE]

\* `message.SenderID || message.SenderId` in messagePump; "" stands for every falsy
\* result (no such field, or an empty string)
senderId(message) ==
  IF Has(message, "SenderID") /\ message.SenderID # "" THEN message.SenderID
  ELSE IF Has(message, "SenderId") THEN message.SenderId
  ELSE ""

\* `if (senderId)` and `if (system)` of messagePump both hold for the message
knownSender(message, known) == senderId(message) # "" /\ senderId(message) \in known

RECURSIVE processBatch_stopsAtUnknown(_, _, _, _)
processBatch_stopsAtUnknown(syss, messages, k, cbs) ==
  IF k > Len(messages) THEN [systems |-> syss, log |-> <<>>, threw |-> FALSE]
  ELSE
    LET m == messages[k]
        known == knownSender(m, DOMAIN syss)
    IN IF ~known THEN [systems |-> syss, log |-> <<>>, threw |-> FALSE]
       ELSE LET r == processMessage(syss[senderId(m)], m, cbs)
                rest == processBatch_stopsAtUnknown([syss EXCEPT ![senderId(m)] = r.system],
                                                    messages, k + 1, cbs)
            IN [systems |-> rest.systems, log |-> r.log \o rest.log, threw |-> FALSE]

RECURSIVE processBatch_lastFirst(_, _, _, _)
processBatch_lastFirst(syss, messages, k, cbs) ==
  IF k > Len(messages) THEN [systems |-> syss, log |-> <<>>, threw |-> FALSE]
  ELSE
    LET rest == processBatch_lastFirst(syss, messages, k + 1, cbs)
        m == messages[k]
        known == knownSender(m, DOMAIN syss)
        r == IF known THEN processMessage(rest.systems[senderId(m)], m, cbs)
             ELSE [system |-> EmptyObj, log |-> <<>>, threw |-> FALSE]
    IN [systems |-> IF known THEN [rest.systems EXCEPT ![senderId(m)] = r.system]
                    ELSE rest.systems,
        log |-> rest.log \o r.log, threw |-> FALSE]

\* the loop over the retrieved messages in messagePump, from message k on:
\* [systems, log, threw]
RECURSIVE processBatch(_, _, _, _)
processBatch(syss, messages, k, cbs) ==
  IF k > Len(messages) THEN [systems |-> syss, log |-> <<>>, threw |-> FALSE]
  ELSE
    LET m == messages[k]
        known == knownSender(m, DOMAIN syss)
        r == IF known THEN processMessage(syss[senderId(m)], m, cbs)
             ELSE [system |-> EmptyObj, log |-> <<>>, threw |-> FALSE]
        syss1 == IF known THEN [syss EXCEPT ![senderId(m)] = r.system] ELSE syss
    IN IF r.threw THEN [systems |-> syss1, log |-> r.log, threw |-> TRUE]
       ELSE LET rest == processBatch(syss1, messages, k + 1, cbs)
            IN [systems |-> rest.systems, log |-> r.log \o rest.log,
                threw |-> rest.threw]

(***************************************************************************)
(* Zone fragments (ZoneData) the zone specification draws from.            *)
(***************************************************************************)
NameValues == {"Den"}
MinCspValues == {65}
ZoneEnabledValues == {0, 1}
TemperatureValues == {0, 70}
FanValues == {TRUE}
SystemModeValues == {"heat"}
FanModeValues == {"on"}
HspValues == {70}
CspValues == {75}

ZoneConfigs ==
  Opt(Opt(Opt({EmptyObj}, "name", NameValues), "minCsp", MinCspValues),
      "zoneEnabled", ZoneEnabledValues)
ZonePeriods ==
  Opt(Opt(Opt(Opt({EmptyObj}, "systemMode", SystemModeValues), "fanMode", FanModeValues),
          "hsp", HspValues), "csp", CspValues)
ZoneStatuses ==
  Opt(Opt(Opt({EmptyObj}, "temperature", TemperatureValues), "fan", FanValues),
      "period", ZonePeriods)
ZoneDatas ==
  Opt(Opt({[id |-> 0]}, "config", ZoneConfigs), "status", ZoneStatuses)

VARIABLES zone, prevZone, lastData, tempSeen

zvars == <<zone, prevZone, lastData, tempSeen>>

\* the answer of the last needsTokenRefresh() call: "none" | "true" | "false"
VARIABLE refreshResult

\* Calls of the client's API outside the pump.
VARIABLES
  op,        \* the last call of authenticate, login or a command: input and result
  outbox,    \* the bodies of the requests sent by publish, oldest first
  initPc,    \* where initialize() is suspended
  init,      \* the locals of initialize() and a record of what it has done
  extraPumps \* the pump loops created by further startMessagePump calls: where each
             \* is suspended

xvars == <<op, outbox, initPc, init, extraPumps>>

\* LennoxWifiClient and the iComfort Wifi service.
VARIABLES
  isPolling,  \* this.isPolling
  pollLoops,  \* the poll loops created by startMessagePump, oldest first
  wifiZones,  \* this.zones: key -> the (gateway, zone number) of the zone stored
  discovered, \* the (gateway, zone number) pairs initialize() has stored a zone for
  tStatInfo,  \* the thermostat record the service holds for the zone of the commands
  wifiCalls   \* the setHVACMode and setTemperature calls: where each is suspended

wvars == <<isPolling, pollLoops, wifiZones, discovered, tStatInfo, wifiCalls>>

WifiCommands == {"setHVACMode", "setTemperature"}

\* a call that has not been made
NoCall == [pc |-> "idle"]

\* the client after its constructor; the service holds a thermostat that is off
WifiInit ==
  /\ isPolling = FALSE
  /\ pollLoops = <<>>
  /\ wifiZones = <<>>
  /\ discovered = {}
  /\ tStatInfo = [Zone_Number |-> 0, Operation_Mode |-> 0,
                  Heat_Set_Point |-> 68, Cool_Set_Point |-> 78]
  /\ wifiCalls = [c \in WifiCommands |-> NoCall]

\* authenticate(), login() and subscribe() called on their own, and the publish()
\* calls of the commands.
VARIABLES
  apiCalls,  \* where each of authenticate, login, subscribe is suspended, and what it
             \* returned or threw
  publishes  \* the publish() calls that have sent their request, oldest first: the
             \* command, the Authorization header of the request, and the answer
             \* once it has come

avars == <<apiCalls, publishes>>

ApiCallNames == {"authenticate", "login", "subscribe"}

NoOp == [name |-> "none"]

\* no API call made, initialize() not called
NoInit ==
  [ known |-> <<>>, pos |-> 0, req |-> 0, subs |-> <<>>, startTime |-> 0, polls |-> 0,
    retry |-> 0, timedOut |-> FALSE, error |-> "none" ]

XInit ==
  /\ op = NoOp
  /\ outbox = <<>>
  /\ initPc = "idle"
  /\ init = NoInit
  /\ extraPumps = <<>>
  /\ apiCalls = [c \in ApiCallNames |-> [pc |-> "idle"]]
  /\ publishes = <<>>
  /\ WifiInit

\* the variables of the specifications of single functions
pvars == <<zvars, refreshResult, xvars, wvars, avars>>

\* no fragment is being applied
NoData == EmptyObj

ZoneInit ==
  /\ zone = LennoxZone(0, "Zone 1", "s1")
  /\ prevZone = zone
  /\ lastData = NoData
  /\ tempSeen = FALSE

\* one call zone.updateFromData(data); prevZone and lastData record the call
ZoneUpdate ==
  /\ lastData = NoData
  /\ \E data \in ZoneDatas :
       /\ prevZone' = zone
       /\ lastData' = data
       /\ zone' = updateFromData(zone, data)
       /\ tempSeen' = (tempSeen \/ (Has(data, "status") /\ Has(data.status, "temperature")))

\* the call has returned: the fragment is discarded, the zone keeps its state
ZoneDiscard ==
  /\ lastData # NoData
  /\ lastData' = NoData
  /\ prevZone' = zone
  /\ UNCHANGED <<zone, tempSeen>>


(***************************************************************************)
(* LennoxS30Client: authentication state, token refresh, message pump.     *)
(***************************************************************************)
TOKEN_REFRESH_BUFFER == 300
MAX_CONSECUTIVE_ERRORS == 5
maxRetries == 5

\* bounds of the model
MaxErrors == 6
MaxTicks == 1
MaxObservers == 2

\* what the cloud answers and how the clock moves
SysIds == {"s1", "s2"}
HomeName == "Home"
LoginSystemLists == {<<"s1">>, <<"s1", "s2">>}
\* the rest of a login answer: without myPresence, with an empty one, with an entry
LoginPresences == {EmptyObj, [myPresence |-> EmptyObj], [myPresence |-> [s1 |-> "offline"]]}
NoPresence == {EmptyObj}
BearerTokens == {"tokA"}
CertificateTokens == {"cert"}
TokenLifetimes == {600}
ClockStepsMs == {300000}

VARIABLES
  certificateToken, loginBearerToken, tokenExpiry,  \* authentication state
  systems, sysOrder,        \* this.systems: sysId -> LennoxSystem, and its key order
  updateCallbacks,          \* this.updateCallbacks
  nowMs,                    \* Date.now()
  pumpPc,                   \* where the pump loop of startMessagePump is suspended
  connCtx,                  \* who called serverConnect: "refresh" | "reconnect"
  retry,                    \* loop variable of authenticate
  consecutiveErrors,        \* consecutiveErrors of startMessagePump
  unauthCounted,            \* an Unauthorized cycle is counted in consecutiveErrors
  cycleError,               \* errorCode of the error caught in this cycle
  subPos, subReq,           \* subscribe loop: position in sysOrder, request 1 or 2
  onErrorKind,              \* the onError argument: "none" | "ok" | "throws"
  cyc,                      \* record of the calls of the current poll cycle
  deliveries,               \* per fragment of the last batch: the observers called
  commsStreak,              \* consecutive cycles whose retrieve had a transport error
  stopState                 \* "no" | "called" (shutdown, pump running) | "boundary"

cvars == <<certificateToken, loginBearerToken, tokenExpiry, systems, sysOrder,
           updateCallbacks, nowMs, pumpPc, connCtx, retry, consecutiveErrors, unauthCounted,
           cycleError, subPos, subReq, onErrorKind, cyc, deliveries, commsStreak,
           stopState>>

vars == <<cvars, pvars>>

Waits == {"authWait", "loginWait", "subWait", "retrieveWait"}

needsTokenRefresh_strict(now, expiry) == now > (expiry - TOKEN_REFRESH_BUFFER) * 1000

\* LennoxS30Client.needsTokenRefresh, with now = Date.now() in milliseconds:
\* now / 1000 >= tokenExpiry - TOKEN_REFRESH_BUFFER
\* (with tokenExpiry undefined the difference is NaN and the comparison false)
needsTokenRefresh(now, expiry) ==
  expiry # UndefinedNum /\ now >= (expiry - TOKEN_REFRESH_BUFFER) * 1000

\* the system processLoginResponse constructs for sysId: when the answer carries
\* myPresence, cloudStatus is `response.myPresence[sysId] || 'unknown'`
discoveredSystem(sysId, response) ==
  LET system == LennoxSystem(sysId, HomeName) IN
  IF Has(response, "myPresence")
    THEN [system EXCEPT !.cloudStatus =
            IF Has(response.myPresence, sysId) /\ response.myPresence[sysId] # ""
              THEN response.myPresence[sysId] ELSE "unknown"]
    ELSE system

\* the loop of processLoginResponse: every listed system is constructed anew and
\* stored under its id (Map.set keeps the position of a key already present)
RECURSIVE setSystems(_, _, _, _)
setSystems(syss, ids, k, response) ==
  IF k > Len(ids) THEN syss
  ELSE setSystems(With(syss, ids[k], discoveredSystem(ids[k], response)), ids, k + 1,
                  response)

\* the classes of a 200 answer to login() that carries a user token: complete, the
\* userToken without expiryTime, a home without `systems`
StoredLoginOutcomes == {"ok", "noExpiryTime", "homeWithoutSystems"}

\* the tokenExpiry processLoginResponse stores for an answer of class r
storedExpiry(r, now, life) ==
  IF r = "noExpiryTime" THEN UndefinedNum ELSE (now \div 1000) + life

RECURSIVE setOrder(_, _, _)
setOrder(order, ids, k) ==
  IF k > Len(ids) THEN order
  ELSE setOrder(IF \E i \in 1..Len(order) : order[i] = ids[k]
                  THEN order ELSE Append(order, ids[k]), ids, k + 1)

\* processLoginResponse for a 200 answer of class r with the user token tok: the
\* bearer token and the expiry are stored first; `new Date(this.tokenExpiry *
\* 1000).toISOString()` throws when there is no expiryTime, and the loop over
\* home.systems throws for a home without systems, in both cases before any system
\* is stored (the answer lists one home)
processLoginResponse(r, tok, life, ids, response) ==
  /\ loginBearerToken' = tok
  /\ tokenExpiry' = storedExpiry(r, nowMs, life)
  /\ IF r = "ok"
       THEN /\ systems' = setSystems(systems, ids, 1, response)
            /\ sysOrder' = setOrder(sysOrder, ids, 1)
       ELSE UNCHANGED <<systems, sysOrder>>

NewCycle ==
  [ refreshes |-> 0, reconnects |-> 0, logins |-> 0, subs |-> <<>>, retrieves |-> 0,
    got401 |-> FALSE, ceAt401 |-> 0, reconnected |-> FALSE, netFail |-> FALSE,
    expected |-> 0, answer |-> "pending", failedBefore |-> FALSE,
    batch |-> <<>>, failedConnects |-> 0, auths |-> {} ]

\* the client after its constructor, but for the token expiry and the clock
ClientNew ==
  /\ certificateToken = NoToken
  /\ loginBearerToken = NoToken
  /\ systems = EmptyObj
  /\ sysOrder = <<>>
  /\ updateCallbacks = <<>>
  /\ pumpPc = "idle"
  /\ connCtx = "none"
  /\ retry = 0
  /\ consecutiveErrors = 0
  /\ unauthCounted = FALSE
  /\ cycleError = "none"
  /\ subPos = 0
  /\ subReq = 0
  /\ onErrorKind = "none"
  /\ cyc = NewCycle
  /\ deliveries = <<>>
  /\ commsStreak = 0
  /\ stopState = "no"

ClientInit == ClientNew /\ tokenExpiry = 0 /\ nowMs = 0

Init == ClientInit /\ ZoneInit /\ refreshResult = "none" /\ XInit

\* whether the cloud may answer with a failure; fail selects the scenarios with
\* failures, and the failure counter is bounded
EnvMayFail(fail) == fail /\ consecutiveErrors < MaxErrors

(***************************************************************************)
(* Pieces of the pump's control flow.  Each sets pumpPc, connCtx, retry,   *)
(* subPos and subReq; EndCycleOk also sets the failure counter; PumpCatch  *)
(* and ConnectFailed also set consecutiveErrors, cycleError and cyc.       *)
(***************************************************************************)
\* serverConnect() is entered: authenticate() sends its first request
ToAuth(ctx) ==
  /\ pumpPc' = "authWait" /\ connCtx' = ctx /\ retry' = 0 /\ subPos' = 0 /\ subReq' = 0

\* the end of the catch block of the pump: `if (onError ...) onError(error)`, then
\* the sleep; an exception of onError leaves the loop
afterErrorPc(kind) == IF kind = "throws" THEN "dead" ELSE "sleep"

EndCycleErr ==
  /\ pumpPc' = afterErrorPc(onErrorKind)
  /\ connCtx' = "none" /\ retry' = 0 /\ subPos' = 0 /\ subReq' = 0

EndCycleOk_keepsCounter ==
  /\ UNCHANGED <<consecutiveErrors, unauthCounted>>
  /\ pumpPc' = "sleep" /\ connCtx' = "none" /\ retry' = 0 /\ subPos' = 0 /\ subReq' = 0

\* messagePump() returned: `consecutiveErrors = 0`, then the sleep
EndCycleOk ==
  /\ consecutiveErrors' = 0
  /\ unauthCounted' = FALSE
  /\ pumpPc' = "sleep" /\ connCtx' = "none" /\ retry' = 0 /\ subPos' = 0 /\ subReq' = 0

\* the if / else-if of the catch block: reconnect on Unauthorized, or on the
\* threshold
reconnectDecision(err, n) == err = "UNAUTH" \/ n >= MAX_CONSECUTIVE_ERRORS

\* the catch block of the pump for an error thrown by messagePump(), in a loop
\* whose consecutiveErrors is n (ua: an Unauthorized was counted since the reset)
PumpCatchFrom(n, ua, err, c) ==
  /\ consecutiveErrors' = n + 1
  /\ unauthCounted' = (ua \/ err = "UNAUTH")
  /\ cycleError' = err
  /\ IF reconnectDecision(err, n + 1)
       THEN ToAuth("reconnect") /\ cyc' = [c EXCEPT !.reconnects = @ + 1]
       ELSE EndCycleErr /\ cyc' = c

PumpCatch(err, c) == PumpCatchFrom(consecutiveErrors, unauthCounted, err, c)

\* the cycle record c after one more serverConnect() that threw
FailedConnect(c) == [c EXCEPT !.failedConnects = @ + 1]

ConnectFailed_swallow(err, c) ==
  /\ UNCHANGED <<loginBearerToken, tokenExpiry, systems, sysOrder>>
  /\ IF connCtx = "refresh"
       THEN /\ pumpPc' = "retrieveWait"
            /\ connCtx' = "none" /\ retry' = 0 /\ subPos' = 0 /\ subReq' = 0
            /\ cyc' = [FailedConnect(c) EXCEPT !.retrieves = 1,
                          !.auths = @ \cup {<<"retrieve", loginBearerToken>>}]
            /\ UNCHANGED <<consecutiveErrors, unauthCounted, cycleError>>
       ELSE /\ EndCycleErr
            /\ cyc' = FailedConnect(c)
            /\ UNCHANGED <<consecutiveErrors, unauthCounted, cycleError>>

ConnectFailed_resets(err, c) ==
  /\ UNCHANGED <<loginBearerToken, tokenExpiry, systems, sysOrder>>
  /\ IF connCtx = "refresh" THEN PumpCatch(err, FailedConnect(c))
       ELSE /\ EndCycleErr
            /\ cyc' = FailedConnect(c)
            /\ consecutiveErrors' = 0
            /\ UNCHANGED <<unauthCounted, cycleError>>

\* serverConnect() threw err before processLoginResponse assigned anything: the
\* bearer token, its expiry and the systems are as before; inside messagePump
\* (refresh) the error reaches the pump's catch block, inside the reconnect it is
\* logged
ConnectFailed(err, c) ==
  /\ UNCHANGED <<loginBearerToken, tokenExpiry, systems, sysOrder>>
  /\ IF connCtx = "refresh" THEN PumpCatch(err, FailedConnect(c))
       ELSE /\ EndCycleErr
            /\ cyc' = FailedConnect(c)
            /\ UNCHANGED <<consecutiveErrors, unauthCounted, cycleError>>

\* login() threw LOGIN_FAILED out of processLoginResponse, after the bearer token
\* and the expiry of the answer were stored
LoginThrewAfterStore(r, tok, life, c) ==
  /\ processLoginResponse(r, tok, life, <<>>, EmptyObj)
  /\ IF connCtx = "refresh" THEN PumpCatch("LOGIN", FailedConnect(c))
       ELSE /\ EndCycleErr
            /\ cyc' = FailedConnect(c)
            /\ UNCHANGED <<consecutiveErrors, unauthCounted, cycleError>>

\* the start of a loop iteration, in a loop whose consecutiveErrors is n:
\* messagePump() up to its first request
LoopTopFrom(n, ua) ==
  IF needsTokenRefresh(nowMs, tokenExpiry)
    THEN /\ ToAuth("refresh")
         /\ cyc' = [NewCycle EXCEPT !.refreshes = 1]
         /\ cycleError' = "none"
         /\ consecutiveErrors' = n /\ unauthCounted' = ua
  ELSE IF loginBearerToken = NoToken
    THEN PumpCatchFrom(n, ua, "UNAUTH", NewCycle)
  ELSE /\ pumpPc' = "retrieveWait"
       /\ connCtx' = "none" /\ retry' = 0 /\ subPos' = 0 /\ subReq' = 0
       /\ cyc' = [NewCycle EXCEPT !.retrieves = 1,
                                  !.auths = {<<"retrieve", loginBearerToken>>}]
       /\ cycleError' = "none"
       /\ consecutiveErrors' = n /\ unauthCounted' = ua

LoopTop == LoopTopFrom(consecutiveErrors, unauthCounted)

\* subscribe(system) for the system at position k of the key order, or the end of
\* the loop; bearer is this.loginBearerToken, order the keys, c the cycle record
SubscribeFrom(k, bearer, order, c) ==
  IF k > Len(order)
    THEN /\ consecutiveErrors' = 0
         /\ unauthCounted' = FALSE
         /\ EndCycleErr
         /\ cyc' = [c EXCEPT !.reconnected = TRUE]
         /\ UNCHANGED cycleError
  ELSE IF bearer = NoToken
    THEN /\ EndCycleErr
         /\ cyc' = [c EXCEPT !.subs = Append(@, order[k])]
         /\ UNCHANGED <<consecutiveErrors, unauthCounted, cycleError>>
  ELSE /\ pumpPc' = "subWait" /\ subPos' = k /\ subReq' = 1
       /\ connCtx' = connCtx /\ retry' = 0
       /\ cyc' = [c EXCEPT !.subs = Append(@, order[k]),
                           !.auths = @ \cup {<<"requestData", bearer>>}]
       /\ UNCHANGED <<consecutiveErrors, unauthCounted, cycleError>>

(***************************************************************************)
(* Messages the retrieve call may return.                                  *)
(***************************************************************************)
ZoneIds == {0}
TempData(i) == [id |-> i, status |-> [temperature |-> 70]]
NameData(i) == [id |-> i, config |-> [name |-> "Den"]]
PumpZoneDatas == {TempData(i) : i \in ZoneIds} \cup {NameData(i) : i \in ZoneIds}
ZoneLists == {<<a>> : a \in PumpZoneDatas} \cup {<<a, b>> : a, b \in PumpZoneDatas}
Msg(s, zl) == [SenderID |-> s, Data |-> [zones |-> zl]]
Messages ==
  {Msg(s, zl) : s \in SysIds, zl \in ZoneLists}
    \cup { Msg("s9", <<TempData(0)>>),              \* a system that is not known
           [Data |-> [zones |-> <<TempData(0)>>]],  \* no sender id
           [SenderID |-> "s1"] }                    \* no Data
Batches == {<<m>> : m \in Messages}

\* a system-level message: the system s1 is renamed
SystemNameMessage == [SenderID |-> "s1", Data |-> [system |-> [config |-> [name |-> "Upstairs"]]]]
DataBatches == Batches \cup {<<SystemNameMessage>>}

\* Batches of several messages whose fragments overlap: the same field of the
\* same zone with different values, in one message and across messages, for
\* two zones and two systems, and messages that processMessage is not called for
\* or returns from at once.
FragA == [id |-> 0, status |-> [temperature |-> 70, period |-> [hsp |-> 66]]]
FragB == [id |-> 0, status |-> [temperature |-> 72]]
FragC == [id |-> 0, config |-> [name |-> "Den", zoneEnabled |-> 1],
          status |-> [period |-> [hsp |-> 64, csp |-> 77]]]
FragD == [id |-> 1, status |-> [temperature |-> 68]]
OrderMessages ==
  { Msg("s1", <<FragA>>), Msg("s1", <<FragB>>), Msg("s1", <<FragA, FragB>>),
    Msg("s1", <<FragC, FragD>>), Msg("s2", <<FragB, FragA>>),
    [SenderId |-> "s1", Data |-> [zones |-> <<FragB>>]] }   \* sender as SenderId
IgnoredMessages ==
  { Msg("s9", <<FragA>>),              \* a system that is not known
    [Data |-> [zones |-> <<FragA>>]],  \* no sender id
    [SenderID |-> "", Data |-> [zones |-> <<FragA>>]],   \* an empty sender id
    [SenderID |-> "s1"] }              \* no Data
OrderBatches ==
  {<<m>> : m \in OrderMessages \cup IgnoredMessages}
    \cup {<<m1, m2>> : m1, m2 \in OrderMessages \cup IgnoredMessages}
    \cup {<<m1, g, m2>> : m1, m2 \in {Msg("s1", <<FragA>>), Msg("s1", <<FragB>>)},
                          g \in IgnoredMessages}
ControlBatches == {<<Msg("s1", <<TempData(0)>>)>>}

\* the number of zone fragments of a batch that belong to known systems
RECURSIVE CountFragments(_, _, _)
CountFragments(known, messages, k) ==
  IF k > Len(messages) THEN 0
  ELSE (IF /\ knownSender(messages[k], known)
           /\ Has(messages[k], "Data") /\ Has(messages[k].Data, "zones")
          THEN Len(messages[k].Data.zones) ELSE 0)
       + CountFragments(known, messages, k + 1)

(***************************************************************************)
(* The pump: one action per resumption of the loop of startMessagePump.    *)
(***************************************************************************)
\* startMessagePump(onError): the loop is created with consecutiveErrors = 0 and
\* pump() runs its first iteration up to the first await before the call returns
StartMessagePump(kinds) ==
  /\ pumpPc = "idle"
  /\ \E kind \in kinds : onErrorKind' = kind
  /\ LoopTopFrom(0, FALSE)
  /\ deliveries' = <<>>
  /\ commsStreak' = IF ~needsTokenRefresh(nowMs, tokenExpiry) /\ loginBearerToken = NoToken
                      THEN 0 ELSE commsStreak
  /\ stopState' = "no"
  /\ UNCHANGED <<certificateToken, loginBearerToken, tokenExpiry, systems, sysOrder,
                 updateCallbacks, nowMs>>
  /\ UNCHANGED pvars

\* the sleep of the loop is over: the next iteration starts
PumpWake ==
  /\ pumpPc = "sleep"
  /\ LoopTop
  /\ deliveries' = <<>>
  /\ commsStreak' = IF ~needsTokenRefresh(nowMs, tokenExpiry) /\ loginBearerToken = NoToken
                      THEN 0 ELSE commsStreak
  /\ stopState' = IF stopState = "called" THEN "boundary" ELSE stopState
  /\ UNCHANGED <<certificateToken, loginBearerToken, tokenExpiry, systems, sysOrder,
                 updateCallbacks, nowMs, onErrorKind>>
  /\ UNCHANGED pvars

\* the answer to the request of authenticate()
AuthResponse(fail) ==
  /\ pumpPc = "authWait"
  /\ \E r \in {"ok", "noToken", "status", "neterr"} :
       /\ r # "ok" => EnvMayFail(fail)
       /\ CASE r = "ok" ->
                 /\ certificateToken' \in CertificateTokens
                 /\ pumpPc' = "loginWait"
                 /\ cyc' = [cyc EXCEPT !.logins = @ + 1,
                                       !.auths = @ \cup {<<"login", certificateToken'>>}]
                 /\ UNCHANGED <<connCtx, retry, subPos, subReq, consecutiveErrors, unauthCounted,
                                cycleError, commsStreak>>
                 /\ UNCHANGED <<loginBearerToken, tokenExpiry, systems, sysOrder>>
            [] r = "noToken" ->
                 /\ certificateToken' = NoToken
                 /\ ConnectFailed("AUTH", [cyc EXCEPT !.netFail = TRUE])
                 /\ commsStreak' = IF connCtx = "refresh" THEN 0 ELSE commsStreak
            [] r = "status" ->
                 /\ UNCHANGED certificateToken
                 /\ IF retry + 1 < maxRetries
                      THEN /\ retry' = retry + 1
                           /\ cyc' = [cyc EXCEPT !.netFail = TRUE]
                           /\ UNCHANGED <<pumpPc, connCtx, subPos, subReq,
                                          consecutiveErrors, unauthCounted, cycleError, commsStreak>>
                           /\ UNCHANGED <<loginBearerToken, tokenExpiry, systems, sysOrder>>
                      ELSE /\ ConnectFailed("AUTH", [cyc EXCEPT !.netFail = TRUE])
                           /\ commsStreak' = IF connCtx = "refresh" THEN 0 ELSE commsStreak
            [] r = "neterr" ->
                 /\ UNCHANGED certificateToken
                 /\ ConnectFailed("COMMS", [cyc EXCEPT !.netFail = TRUE])
                 /\ commsStreak' = IF connCtx = "refresh" THEN 0 ELSE commsStreak
  /\ UNCHANGED <<updateCallbacks, nowMs, onErrorKind, deliveries, stopState>>
  /\ UNCHANGED pvars

\* the answer to the request of login(); on 200 processLoginResponse runs, then
\* messagePump goes on to its retrieve request (refresh) or the reconnect goes on
\* to the subscribe loop
LoginResponseWith(toks, presences, fail) ==
  /\ pumpPc = "loginWait"
  /\ \/ \E tok \in toks, life \in TokenLifetimes, ids \in LoginSystemLists,
        response \in presences :
          /\ processLoginResponse("ok", tok, life, ids, response)
          /\ IF connCtx = "refresh"
               THEN /\ pumpPc' = "retrieveWait"
                    /\ connCtx' = "none" /\ retry' = 0 /\ subPos' = 0 /\ subReq' = 0
                    /\ cyc' = [cyc EXCEPT !.retrieves = 1,
                                          !.auths = @ \cup {<<"retrieve", tok>>}]
                    /\ UNCHANGED <<consecutiveErrors, unauthCounted, cycleError>>
               ELSE SubscribeFrom(1, tok, setOrder(sysOrder, ids, 1), cyc)
          /\ UNCHANGED commsStreak
     \/ \E r \in StoredLoginOutcomes \ {"ok"}, tok \in toks, life \in TokenLifetimes :
          /\ EnvMayFail(fail)
          /\ LoginThrewAfterStore(r, tok, life, [cyc EXCEPT !.netFail = TRUE])
          /\ commsStreak' = IF connCtx = "refresh" THEN 0 ELSE commsStreak
     \/ \E r \in {"noUserToken", "status", "neterr"} :
          /\ EnvMayFail(fail)
          /\ ConnectFailed(IF r = "neterr" THEN "COMMS" ELSE "LOGIN",
                           [cyc EXCEPT !.netFail = TRUE])
          /\ commsStreak' = IF connCtx = "refresh" THEN 0 ELSE commsStreak
  /\ UNCHANGED <<certificateToken, updateCallbacks, nowMs, onErrorKind, deliveries,
                 stopState>>
  /\ UNCHANGED pvars

\* the cloud issues the one sample token
LoginResponse(fail) == LoginResponseWith(BearerTokens, LoginPresences, fail)

\* the answer to a requestData() of subscribe() in the reconnect
SubResponse(fail) ==
  /\ pumpPc = "subWait"
  /\ \/ /\ subReq = 1
        /\ IF loginBearerToken = NoToken
             THEN EndCycleErr /\ UNCHANGED cyc
             ELSE /\ subReq' = 2
                  /\ cyc' = [cyc EXCEPT !.auths = @ \cup {<<"requestData", loginBearerToken>>}]
                  /\ UNCHANGED <<pumpPc, connCtx, retry, subPos>>
        /\ UNCHANGED <<consecutiveErrors, unauthCounted, cycleError>>
     \/ /\ subReq = 2
        /\ SubscribeFrom(subPos + 1, loginBearerToken, sysOrder, cyc)
     \/ /\ EnvMayFail(fail)
        /\ EndCycleErr
        /\ cyc' = [cyc EXCEPT !.netFail = TRUE]
        /\ UNCHANGED <<consecutiveErrors, unauthCounted, cycleError>>
  /\ UNCHANGED <<certificateToken, loginBearerToken, tokenExpiry, systems, sysOrder,
                 updateCallbacks, nowMs, onErrorKind, deliveries, commsStreak,
                 stopState>>
  /\ UNCHANGED pvars

\* the answer to the retrieve request of messagePump()
RetrieveResponse(batches, fail) ==
  /\ pumpPc = "retrieveWait"
  /\ \/ \E batch \in batches :
          LET res == processBatch(systems, batch, 1, updateCallbacks) IN
          /\ systems' = res.systems
          /\ deliveries' = res.log
          /\ cyc' = [cyc EXCEPT !.expected = CountFragments(DOMAIN systems, batch, 1),
                              !.answer = "messages", !.batch = batch]
          /\ EndCycleOk
          /\ commsStreak' = 0
          /\ UNCHANGED cycleError
     \/ \E r \in {"empty", "204", "status", "neterr"} :
          /\ r \in {"status", "neterr"} => EnvMayFail(fail)
          /\ EndCycleOk
          /\ commsStreak' = IF r = "neterr"
                              THEN (IF commsStreak < MAX_CONSECUTIVE_ERRORS
                                      THEN commsStreak + 1 ELSE commsStreak)
                              ELSE 0
          /\ cyc' = [cyc EXCEPT !.answer = IF r \in {"empty", "204"} THEN "none"
                                            ELSE "failed",
                              !.failedBefore = consecutiveErrors > 0]
          /\ UNCHANGED <<systems, deliveries, cycleError>>
     \/ /\ EnvMayFail(fail)
        /\ PumpCatch("UNAUTH", [cyc EXCEPT !.got401 = TRUE, !.ceAt401 = consecutiveErrors,
                                          !.answer = "401"])
        /\ commsStreak' = 0
        /\ UNCHANGED <<systems, deliveries>>
  /\ UNCHANGED <<certificateToken, loginBearerToken, tokenExpiry, sysOrder,
                 updateCallbacks, nowMs, onErrorKind, stopState>>
  /\ UNCHANGED pvars


(***************************************************************************)
(* Calls of the client's user, and the clock.                              *)
(***************************************************************************)
\* this.systems.clear() under the iterators of the subscribe loops (`for (const system
\* of this.systems.values())` in the pump loops and in initialize(), kept across the
\* awaits): an iterator goes on with the entries stored after the clear, from the
\* first one
clearIterators ==
  /\ subPos' = 0
  /\ init' = [init EXCEPT !.pos = 0]
  /\ extraPumps' = [i \in DOMAIN extraPumps |-> [extraPumps[i] EXCEPT !.subPos = 0]]

\* LennoxS30Client.shutdown
Shutdown ==
  /\ consecutiveErrors < MaxErrors
  /\ certificateToken' = NoToken
  /\ loginBearerToken' = NoToken
  /\ systems' = EmptyObj
  /\ sysOrder' = <<>>
  /\ stopState' = IF pumpPc \in {"idle", "dead"} \/ stopState = "boundary"
                    THEN stopState ELSE "called"
  /\ clearIterators
  /\ UNCHANGED <<tokenExpiry, updateCallbacks, nowMs, pumpPc, connCtx, retry,
                 consecutiveErrors, unauthCounted, cycleError, subReq, onErrorKind, cyc,
                 deliveries, commsStreak>>
  /\ UNCHANGED <<zvars, refreshResult, op, outbox, initPc, wvars, avars>>

\* LennoxS30Client.onUpdate(callback)
OnUpdate ==
  /\ Len(updateCallbacks) < MaxObservers
  /\ \E kind \in {"ok", "throws"} : updateCallbacks' = Append(updateCallbacks, kind)
  /\ UNCHANGED <<certificateToken, loginBearerToken, tokenExpiry, systems, sysOrder,
                 nowMs, pumpPc, connCtx, retry, consecutiveErrors, unauthCounted, cycleError, subPos,
                 subReq, onErrorKind, cyc, deliveries, commsStreak, stopState>>
  /\ UNCHANGED pvars

\* time passes
Tick ==
  /\ \E d \in ClockStepsMs : nowMs + d <= MaxTicks * d /\ nowMs' = nowMs + d
  /\ UNCHANGED <<certificateToken, loginBearerToken, tokenExpiry, systems, sysOrder,
                 updateCallbacks, pumpPc, connCtx, retry, consecutiveErrors, unauthCounted, cycleError,
                 subPos, subReq, onErrorKind, cyc, deliveries, commsStreak, stopState>>
  /\ UNCHANGED pvars

(***************************************************************************)
(* authenticate() and login() called on their own (serverConnect).  A call *)
(* runs up to its request; every answer of the cloud is a step of its own, *)
(* and other calls may run in between.                                     *)
(***************************************************************************)
\* the locals of the pump loop, which these calls leave alone
pumpVars == <<pumpPc, connCtx, retry, consecutiveErrors, unauthCounted, cycleError,
              subPos, subReq, onErrorKind, cyc, deliveries, commsStreak, stopState>>

\* what the cloud answers to one request of authenticate(): 200 with a certificate
\* token, 200 without one, another status, or no answer (transport error, timeout)
AuthOutcomes == {"ok", "noToken", "status", "neterr"}

\* lastError of authenticate after the attempt `retry` got a non-200 status
StatusText(k) == "status@" \o ToString(k)

\* one iteration of the loop of authenticate() with the answer r: whether the call
\* ends, with which error code and text, and what happens to this.certificateToken.
\* request() turns every transport error into a LennoxS30Error, which the catch
\* block of authenticate rethrows.
authStep(r, k, lastError) ==
  CASE r = "ok" -> [done |-> TRUE, error |-> "none", text |-> "", token |-> "set"]
    [] r = "noToken" -> [done |-> TRUE, error |-> "AUTH", text |-> "noToken", token |-> "clear"]
    [] r = "status" -> [done |-> FALSE, error |-> "none", text |-> StatusText(k), token |-> "keep"]
    [] r = "neterr" -> [done |-> TRUE, error |-> "COMMS", text |-> "neterr", token |-> "keep"]

\* the call client.authenticate() up to its first request
Authenticate ==
  /\ apiCalls["authenticate"].pc # "wait"
  /\ apiCalls' = [apiCalls EXCEPT !["authenticate"] =
                    [pc |-> "wait", responses |-> <<>>, lastError |-> ""]]
  /\ op' = [name |-> "authenticate"]
  /\ UNCHANGED <<cvars, zvars, wvars, refreshResult, outbox, initPc, init, extraPumps,
                 publishes>>

\* the answer to the pending request of authenticate(): one iteration of its loop;
\* the call returns, throws, or sends the next request
AuthCallResponse(outcomes) ==
  /\ apiCalls["authenticate"].pc = "wait"
  /\ \E r \in outcomes, cert \in CertificateTokens :
       LET call == apiCalls["authenticate"]
           k == Len(call.responses)
           st == authStep(r, k, call.lastError)
           answered == Append(call.responses, r)
       IN /\ certificateToken' = CASE st.token = "set" -> cert
                                   [] st.token = "clear" -> NoToken
                                   [] OTHER -> certificateToken
          /\ apiCalls' = [apiCalls EXCEPT !["authenticate"] =
                IF st.done
                  THEN [ pc |-> "done", responses |-> answered, attempts |-> k + 1,
                         error |-> st.error, text |-> st.text ]
                ELSE IF k + 1 >= maxRetries
                  THEN [ pc |-> "done", responses |-> answered, attempts |-> k + 1,
                         error |-> "AUTH", text |-> st.text ]
                ELSE [pc |-> "wait", responses |-> answered, lastError |-> st.text]]
  /\ UNCHANGED <<loginBearerToken, tokenExpiry, systems, sysOrder, updateCallbacks, nowMs>>
  /\ UNCHANGED <<pumpVars, zvars, wvars, refreshResult, xvars, publishes>>

\* what the cloud answers to the request of login(): 200 with a user token
\* (complete, or one that processLoginResponse throws on), 200 without one, another
\* status, or no answer
LoginOutcomes == StoredLoginOutcomes \cup {"noUserToken", "status", "neterr"}

login_noCertCheck(cert, r) ==
  CASE r = "ok" -> [requests |-> 1, error |-> "none"]
    [] r \in {"noUserToken", "status", "noExpiryTime", "homeWithoutSystems"} ->
         [requests |-> 1, error |-> "LOGIN"]
    [] r = "neterr" -> [requests |-> 1, error |-> "COMMS"]

\* login() holding the certificate token cert, its request answered r: the number of
\* requests made and the error code thrown
login(cert, r) ==
  IF cert = NoToken THEN [requests |-> 0, error |-> "LOGIN"]
  ELSE CASE r = "ok" -> [requests |-> 1, error |-> "none"]
         [] r \in {"noUserToken", "status", "noExpiryTime", "homeWithoutSystems"} ->
              [requests |-> 1, error |-> "LOGIN"]
         [] r = "neterr" -> [requests |-> 1, error |-> "COMMS"]

\* the call client.login() up to its request, or its throw when no certificate
\* token is held
Login ==
  /\ apiCalls["login"].pc # "wait"
  /\ apiCalls' = [apiCalls EXCEPT !["login"] =
        IF certificateToken = NoToken
          THEN [ pc |-> "done", hadCertificate |-> FALSE, response |-> "none",
                 requests |-> login(NoToken, "ok").requests,
                 error |-> login(NoToken, "ok").error ]
          ELSE [pc |-> "wait", hadCertificate |-> TRUE, sentWith |-> certificateToken]]
  /\ op' = [name |-> "login"]
  /\ UNCHANGED <<cvars, zvars, wvars, refreshResult, outbox, initPc, init, extraPumps,
                 publishes>>

\* the answer to the request of login(); a 200 answer with a user token is
\* processed by processLoginResponse
LoginCallResponse(outcomes, lifetimes, presences) ==
  /\ apiCalls["login"].pc = "wait"
  /\ \E r \in outcomes, tok \in BearerTokens, life \in lifetimes, ids \in LoginSystemLists,
        response \in presences :
       LET res == login(apiCalls["login"].sentWith, r) IN
       /\ apiCalls' = [apiCalls EXCEPT !["login"] =
             [ pc |-> "done", hadCertificate |-> TRUE, response |-> r,
               requests |-> res.requests, error |-> res.error ]]
       /\ IF r \in StoredLoginOutcomes
            THEN processLoginResponse(r, tok, life, ids, response)
            ELSE UNCHANGED <<loginBearerToken, tokenExpiry, systems, sysOrder>>
  /\ UNCHANGED <<certificateToken, updateCallbacks, nowMs>>
  /\ UNCHANGED <<pumpVars, zvars, wvars, refreshResult, xvars, publishes>>

NextConnect ==
  \/ Authenticate
  \/ AuthCallResponse(AuthOutcomes)
  \/ Login
  \/ LoginCallResponse(LoginOutcomes, TokenLifetimes, LoginPresences)

SpecConnect == Init /\ [][NextConnect]_vars

(***************************************************************************)
(* Commands: setHVACMode, setTemperature, setFanMode and publish.  Numbers *)
(* with decimals are integers in tenths: a setpoint given in tenths of a   *)
(* degree Fahrenheit, hspC and cspC in tenths of a degree Celsius; hsp and *)
(* csp of a payload are whole degrees.                                     *)
(***************************************************************************)
MaxOutbox == 2

\* getClientId(): `${appId}_${email}`
ClientId == "app_user"

\* zones 0 and 1 of system s1 and zone 2 of system s2, as getOrCreateZone makes them
CmdZones ==
  {LennoxZone(0, "Zone 1", "s1"), LennoxZone(1, "Zone 2", "s1"), LennoxZone(2, "Zone 3", "s2")}
HvacModeSamples == {"heat", "off"}
FanModeSamples == {"on"}
SetpointSamples == {680, 685}
TemperatureOptions == Opt(Opt({EmptyObj}, "hsp", SetpointSamples), "csp", SetpointSamples)
PublishOutcomes == {"ok", "status", "neterr"}

\* Math.round of the number t / 10
MathRound(t) == (t + 5) \div 10

\* fToC(f) for f = t / 10, in tenths: Math.round((f - 32) * 5 / 9 * 10) / 10
fToC(t) == (10 * (t - 320) + 9) \div 18

getManualModeScheduleId_zero(z) == 16

\* getManualModeScheduleId(zone)
getManualModeScheduleId(z) == 16 + z.id

\* the MessageData built by the three commands around a period object
ScheduleData(scheduleId, period) ==
  [ schedules |->
      << [ id |-> scheduleId,
           schedule |-> [ periods |-> << [ id |-> 0, period |-> period ] >> ] ] >> ]

\* the period object of setTemperature(zone, options)
temperaturePeriod(options) ==
  LET p1 == IF Has(options, "hsp")
              THEN [hsp |-> MathRound(options.hsp), hspC |-> fToC(options.hsp)]
              ELSE EmptyObj
      p2 == IF Has(options, "csp")
              THEN With(With(p1, "csp", MathRound(options.csp)), "cspC", fToC(options.csp))
              ELSE p1
  IN p2

\* the body of the request of publish(systemId, data)
publishData(systemId, data) ==
  [ MessageType |-> "Command", SenderID |-> ClientId, TargetID |-> systemId,
    Data |-> data ]

publish_noTokenCheck(bearer, systemId, data) ==
  [sent |-> <<publishData(systemId, data)>>, error |-> "none"]

\* publish(systemId, data) up to its await, holding the bearer token `bearer`: the
\* bodies sent and the error code thrown
publish(bearer, systemId, data) ==
  IF bearer = NoToken THEN [sent |-> <<>>, error |-> "UNAUTH"]
  ELSE [sent |-> <<publishData(systemId, data)>>, error |-> "none"]

publishResponse_retry(body, r) ==
  IF r = "ok" THEN [sent |-> <<>>, error |-> "none"]
  ELSE [sent |-> <<body>>, error |-> "COMMS"]

\* publish after its await, the request with `body` answered r: the bodies sent
\* then and the error code thrown
publishResponse(body, r) ==
  [sent |-> <<>>, error |-> IF r = "ok" THEN "none" ELSE "COMMS"]

\* a command method up to the await of its request: builds data for zone z and
\* calls publish(z.systemId, data), which throws or sends.  The pump, initialize()
\* and other commands may be suspended anywhere.  op records the call and whether
\* the pump was inside serverConnect(); publishes the request, with the
\* Authorization header read as it was built.
Command(name, z, args, data) ==
  /\ Len(outbox) < MaxOutbox
  /\ LET res == publish(loginBearerToken, z.systemId, data) IN
     /\ outbox' = outbox \o res.sent
     /\ publishes' =
          IF res.sent = <<>> THEN publishes
          ELSE Append(publishes, [ name |-> name, zone |-> z, args |-> args,
                                   auth |-> loginBearerToken, pc |-> "wait",
                                   response |-> "none", error |-> "none" ])
     /\ op' = [ name |-> name, zone |-> z, args |-> args, sent |-> res.sent # <<>>,
                error |-> res.error, auth |-> loginBearerToken,
                duringConnect |-> pumpPc \in {"authWait", "loginWait"} ]
  /\ UNCHANGED <<cvars, zvars, wvars, apiCalls, refreshResult, initPc, init, extraPumps>>

\* the answer to the request of a publish() in flight: the command returns, or
\* throws the error of publish
PublishResponse(outcomes) ==
  /\ \E i \in 1..Len(publishes), r \in outcomes :
       /\ publishes[i].pc = "wait"
       /\ LET res == publishResponse(outbox[i], r) IN
          /\ publishes' = [publishes EXCEPT ![i].pc = "done", ![i].response = r,
                                            ![i].error = res.error]
          /\ outbox' = outbox \o res.sent
  /\ UNCHANGED <<cvars, zvars, wvars, apiCalls, refreshResult, op, initPc, init, extraPumps>>

SetHVACMode ==
  \E z \in CmdZones, mode \in HvacModeSamples :
    Command("setHVACMode", z, [mode |-> mode],
            ScheduleData(getManualModeScheduleId(z), [systemMode |-> mode]))

SetTemperature ==
  \E z \in CmdZones, options \in TemperatureOptions :
    Command("setTemperature", z, options,
            ScheduleData(getManualModeScheduleId(z), temperaturePeriod(options)))

\* setFanMode(zone, mode) for a zone of zs
SetFanModeFor(zs) ==
  \E z \in zs, mode \in FanModeSamples :
    Command("setFanMode", z, [mode |-> mode],
            ScheduleData(getManualModeScheduleId(z), [fanMode |-> mode]))

SetFanMode == SetFanModeFor(CmdZones)

\* Commands of a client that has connected, or has not; a command may be called
\* while the request of another is in flight.
NextCmd ==
  \/ Authenticate
  \/ AuthCallResponse({"ok"})
  \/ Login
  \/ LoginCallResponse({"ok"}, TokenLifetimes, NoPresence)
  \/ SetHVACMode
  \/ SetTemperature
  \/ SetFanMode
  \/ PublishResponse(PublishOutcomes)

SpecCmd == Init /\ [][NextCmd]_vars

(***************************************************************************)
(* subscribe(), publish() through a command, and shutdown(), called by the *)
(* user of the client; shutdown() may be called while requests are in      *)
(* flight.                                                                 *)
(***************************************************************************)
CommandNames == {"setHVACMode", "setTemperature", "setFanMode"}

\* requestData(system, jsonPath) up to its await, holding the bearer token `bearer`:
\* the number of requests made and the error code thrown
requestData(bearer) ==
  IF bearer = NoToken THEN [requests |-> 0, error |-> "UNAUTH"]
  ELSE [requests |-> 1, error |-> "none"]

\* requestData after its await, the request answered r: the error code thrown
requestDataResponse(r) == IF r = "ok" THEN "none" ELSE "COMMS"

\* the call client.subscribe(system) up to its first await: its own login check,
\* then the first requestData call
Subscribe ==
  /\ apiCalls["subscribe"].pc # "wait"
  /\ \E sys \in SysIds :
       LET req == IF loginBearerToken = NoToken
                    THEN [requests |-> 0, error |-> "UNAUTH"]
                    ELSE requestData(loginBearerToken)
       IN /\ apiCalls' = [apiCalls EXCEPT !["subscribe"] =
                [ pc |-> IF req.error = "none" THEN "wait" ELSE "done",
                  system |-> sys, responses |-> <<>>,
                  auths |-> IF req.requests = 1 THEN <<loginBearerToken>> ELSE <<>>,
                  requests |-> req.requests, error |-> req.error ]]
          /\ op' = [name |-> "subscribe", system |-> sys]
  /\ UNCHANGED <<cvars, zvars, wvars, refreshResult, outbox, initPc, init, extraPumps,
                 publishes>>

\* the answer to the pending request of subscribe(): the first requestData throws,
\* or returns and the second one is called (it tests the bearer token again); the
\* second throws or returns.  The catch block of subscribe rethrows.
SubscribeResponse(outcomes) ==
  /\ apiCalls["subscribe"].pc = "wait"
  /\ \E r \in outcomes :
       LET call == apiCalls["subscribe"]
           answered == Append(call.responses, r)
           err == requestDataResponse(r)
           req == requestData(loginBearerToken)
       IN apiCalls' = [apiCalls EXCEPT !["subscribe"] =
            IF err # "none" \/ Len(answered) = 2
              THEN [call EXCEPT !.pc = "done", !.responses = answered, !.error = err]
            ELSE IF req.error # "none"
              THEN [call EXCEPT !.pc = "done", !.responses = answered, !.error = req.error]
            ELSE [ call EXCEPT !.responses = answered,
                               !.auths = Append(call.auths, loginBearerToken),
                               !.requests = call.requests + req.requests ]]
  /\ UNCHANGED <<cvars, zvars, wvars, refreshResult, xvars, publishes>>

ShutdownCall_keepsSystems ==
  /\ certificateToken' = NoToken
  /\ loginBearerToken' = NoToken
  /\ op' = [name |-> "shutdown", again |-> op.name = "shutdown"]
  /\ stopState' = IF pumpPc \in {"idle", "dead"} \/ stopState = "boundary"
                    THEN stopState ELSE "called"
  /\ UNCHANGED <<systems, sysOrder, tokenExpiry, updateCallbacks, nowMs>>
  /\ UNCHANGED <<pumpPc, connCtx, retry, consecutiveErrors, unauthCounted, cycleError, subPos,
                 subReq, onErrorKind, cyc, deliveries, commsStreak>>
  /\ UNCHANGED <<zvars, wvars, avars, refreshResult, outbox, initPc, init, extraPumps>>

\* the call client.shutdown(), whatever is in flight; op records whether the call
\* before it was a shutdown() too
ShutdownCall ==
  /\ certificateToken' = NoToken
  /\ loginBearerToken' = NoToken
  /\ systems' = EmptyObj
  /\ sysOrder' = <<>>
  /\ op' = [name |-> "shutdown", again |-> op.name = "shutdown"]
  /\ stopState' = IF pumpPc \in {"idle", "dead"} \/ stopState = "boundary"
                    THEN stopState ELSE "called"
  /\ UNCHANGED <<tokenExpiry, updateCallbacks, nowMs>>
  /\ clearIterators
  /\ UNCHANGED <<pumpPc, connCtx, retry, consecutiveErrors, unauthCounted, cycleError,
                 subReq, onErrorKind, cyc, deliveries, commsStreak>>
  /\ UNCHANGED <<zvars, wvars, avars, refreshResult, outbox, initPc>>

\* A client that connects, subscribes, sends commands and shuts down, in any order
\* and with requests in flight.
NextApi ==
  \/ Authenticate
  \/ AuthCallResponse({"ok"})
  \/ Login
  \/ LoginCallResponse({"ok"}, TokenLifetimes, NoPresence)
  \/ Subscribe
  \/ SubscribeResponse(PublishOutcomes)
  \/ SetFanMode
  \/ PublishResponse(PublishOutcomes)
  \/ ShutdownCall

SpecApi == Init /\ [][NextApi]_vars

(***************************************************************************)
(* The data model on its own: messages routed into one system by           *)
(* processMessage, and getOrCreateZone called directly.  op keeps the      *)
(* system as it was before the call.                                       *)
(***************************************************************************)
SysZoneIds == {0, 1}

\* the system the calls are made on
SysTargets == {"s1"}

\* MessageData samples: system-level fragments that carry every field or omit some,
\* and zone fragments
SysMessages ==
  { [Data |-> [system |-> [status |-> [outdoorTemperature |-> 55]]]],
    [Data |-> [system |-> [status |-> [outdoorTemperature |-> 55, numberOfZones |-> 2]]]],
    [Data |-> [system |-> [config |-> [ name |-> "Upstairs", temperatureUnit |-> "C",
                                        options |-> [productType |-> "S40"] ]]]],
    [Data |-> [system |-> [config |-> [name |-> "Upstairs"]]]],
    [Data |-> [zones |-> <<TempData(0)>>]],
    [Data |-> [zones |-> <<NameData(1)>>]] }

\* processMessage(message, system) for a system of the client
ProcessMessage ==
  /\ \E s \in DOMAIN systems \cap SysTargets, m \in SysMessages :
       LET res == processMessage(systems[s], m, updateCallbacks) IN
       /\ systems' = [systems EXCEPT ![s] = res.system]
       /\ deliveries' = res.log
       /\ op' = [name |-> "processMessage", sysId |-> s, message |-> m,
                 before |-> systems[s]]
  /\ UNCHANGED <<certificateToken, loginBearerToken, tokenExpiry, sysOrder, updateCallbacks,
                 nowMs, pumpPc, connCtx, retry, consecutiveErrors, unauthCounted,
                 cycleError, subPos, subReq, onErrorKind, cyc, commsStreak, stopState>>
  /\ UNCHANGED <<zvars, wvars, avars, refreshResult, outbox, initPc, init, extraPumps>>

\* system.getOrCreateZone(id) for a system of the client
GetOrCreateZone ==
  /\ \E s \in DOMAIN systems \cap SysTargets, id \in SysZoneIds :
       /\ systems' = [systems EXCEPT ![s] = getOrCreateZone(@, id)]
       /\ op' = [name |-> "getOrCreateZone", sysId |-> s, id |-> id,
                 before |-> systems[s]]
  /\ UNCHANGED <<certificateToken, loginBearerToken, tokenExpiry, sysOrder, updateCallbacks,
                 nowMs, pumpVars>>
  /\ UNCHANGED <<zvars, wvars, avars, refreshResult, outbox, initPc, init, extraPumps>>

\* ZoneData[] samples for system.processZonesData
SysZoneLists == {<<TempData(0)>>, <<NameData(1)>>, <<NameData(0), TempData(0)>>}

\* LennoxSystem.processZonesData(zones) from fragment k on: getOrCreateZone and
\* updateFromData for every fragment; the system's name, product type and number of
\* zones are not copied into the zone and no observer is called
RECURSIVE LennoxSystem_processZonesData(_, _, _)
LennoxSystem_processZonesData(system, zones, k) ==
  IF k > Len(zones) THEN system
  ELSE LET sys1 == getOrCreateZone(system, zones[k].id)
           sys2 == [sys1 EXCEPT !.zones[zones[k].id] = updateFromData(@, zones[k])]
       IN LennoxSystem_processZonesData(sys2, zones, k + 1)

\* system.processZonesData(zones) for a system of the client
SystemProcessZonesData ==
  /\ \E s \in DOMAIN systems \cap SysTargets, zones \in SysZoneLists :
       /\ systems' = [systems EXCEPT ![s] = LennoxSystem_processZonesData(@, zones, 1)]
       /\ op' = [name |-> "processZonesData", sysId |-> s, zones |-> zones,
                 before |-> systems[s]]
  /\ UNCHANGED <<certificateToken, loginBearerToken, tokenExpiry, sysOrder, updateCallbacks,
                 nowMs, pumpVars>>
  /\ UNCHANGED <<zvars, wvars, avars, refreshResult, outbox, initPc, init, extraPumps>>

NextSys ==
  \/ Authenticate
  \/ AuthCallResponse({"ok"})
  \/ Login
  \/ LoginCallResponse({"ok"}, TokenLifetimes, NoPresence)
  \/ ProcessMessage
  \/ GetOrCreateZone
  \/ SystemProcessZonesData

SpecSys == Init /\ [][NextSys]_vars

(***************************************************************************)
(* startMessagePump called again while a pump loop runs.  Every call       *)
(* creates a loop of its own, with its own consecutiveErrors and onError;  *)
(* the loops share the client and interleave at their awaits.  A further   *)
(* loop is a record of its locals, and each of its resumptions an action.  *)
(***************************************************************************)
MaxExtraPumps == 1

\* the locals of a loop that startMessagePump(onError) has just created
NewLoop(kind) ==
  [ pc |-> "sleep", ctx |-> "none", retry |-> 0, subPos |-> 0, subReq |-> 0,
    consecutiveErrors |-> 0, onError |-> kind ]

\* serverConnect() is entered in the loop l
loopToAuth(l, ctx) ==
  [l EXCEPT !.pc = "authWait", !.ctx = ctx, !.retry = 0, !.subPos = 0, !.subReq = 0]

\* the end of the catch block in the loop l: onError, then the sleep
loopEndErr(l) ==
  [ l EXCEPT !.pc = afterErrorPc(l.onError), !.ctx = "none", !.retry = 0, !.subPos = 0,
             !.subReq = 0 ]

\* messagePump() returned in the loop l
loopEndOk(l) ==
  [ l EXCEPT !.pc = "sleep", !.ctx = "none", !.retry = 0, !.subPos = 0, !.subReq = 0,
             !.consecutiveErrors = 0 ]

\* the catch block of the loop l for an error thrown by messagePump()
loopCatch(l, err) ==
  LET counted == [l EXCEPT !.consecutiveErrors = @ + 1] IN
  IF reconnectDecision(err, counted.consecutiveErrors)
    THEN loopToAuth(counted, "reconnect")
    ELSE loopEndErr(counted)

\* serverConnect() threw err in the loop l
loopConnectFailed(l, err) ==
  IF l.ctx = "refresh" THEN loopCatch(l, err) ELSE loopEndErr(l)

\* the start of an iteration of the loop l: messagePump() up to its first request
loopTop(l, now, expiry, bearer) ==
  IF needsTokenRefresh(now, expiry) THEN loopToAuth(l, "refresh")
  ELSE IF bearer = NoToken THEN loopCatch(l, "UNAUTH")
  ELSE [l EXCEPT !.pc = "retrieveWait", !.ctx = "none", !.retry = 0, !.subPos = 0,
                 !.subReq = 0]

\* subscribe(system) in the reconnect of the loop l, for the system at position k of
\* the key order, or the end of the subscribe loop
loopSubscribeFrom(l, k, bearer, order) ==
  IF k > Len(order) THEN [loopEndErr(l) EXCEPT !.consecutiveErrors = 0]
  ELSE IF bearer = NoToken THEN loopEndErr(l)
  ELSE [l EXCEPT !.pc = "subWait", !.subPos = k, !.subReq = 1, !.retry = 0]

\* what the steps of a further loop leave alone
extraFrame == <<updateCallbacks, nowMs, pumpPc, connCtx, retry, consecutiveErrors,
                unauthCounted, cycleError, subPos, subReq, onErrorKind, cyc, commsStreak,
                stopState, zvars, wvars, avars, refreshResult, op, outbox, initPc, init>>

\* whether the cloud may fail a request of the loop l; its failure counter is bounded
ExtraMayFail(fail, l) == fail /\ l.consecutiveErrors < MaxErrors

\* startMessagePump(onError) on a client whose pump loop is running: a further loop
\* is created and runs its first iteration up to the first await
StartMessagePumpAgain(kinds) ==
  /\ pumpPc # "idle"
  /\ Len(extraPumps) < MaxExtraPumps
  /\ \E kind \in kinds :
       extraPumps' = Append(extraPumps,
                            loopTop(NewLoop(kind), nowMs, tokenExpiry, loginBearerToken))
  /\ UNCHANGED <<certificateToken, loginBearerToken, tokenExpiry, systems, sysOrder,
                 deliveries>>
  /\ UNCHANGED extraFrame

\* the sleep of a further loop is over: its next iteration starts
ExtraWake ==
  /\ \E i \in 1..Len(extraPumps) :
       /\ extraPumps[i].pc = "sleep"
       /\ extraPumps' = [extraPumps EXCEPT
                           ![i] = loopTop(@, nowMs, tokenExpiry, loginBearerToken)]
  /\ UNCHANGED <<certificateToken, loginBearerToken, tokenExpiry, systems, sysOrder,
                 deliveries>>
  /\ UNCHANGED extraFrame

\* the answer to the request of authenticate() in a further loop
ExtraAuthResponse(fail) ==
  /\ \E i \in 1..Len(extraPumps), r \in AuthOutcomes, cert \in CertificateTokens :
       LET l == extraPumps[i]
           st == authStep(r, l.retry, "")
       IN /\ l.pc = "authWait"
          /\ r # "ok" => ExtraMayFail(fail, l)
          /\ certificateToken' = CASE st.token = "set" -> cert
                                   [] st.token = "clear" -> NoToken
                                   [] OTHER -> certificateToken
          /\ extraPumps' = [extraPumps EXCEPT ![i] =
                IF st.done
                  THEN IF st.error = "none" THEN [l EXCEPT !.pc = "loginWait"]
                       ELSE loopConnectFailed(l, st.error)
                ELSE IF l.retry + 1 >= maxRetries THEN loopConnectFailed(l, "AUTH")
                ELSE [l EXCEPT !.retry = @ + 1]]
  /\ UNCHANGED <<loginBearerToken, tokenExpiry, systems, sysOrder, deliveries>>
  /\ UNCHANGED extraFrame

\* the answer to the request of login() in a further loop
ExtraLoginResponse(presences, fail) ==
  /\ \E i \in 1..Len(extraPumps) :
       LET l == extraPumps[i] IN
       /\ l.pc = "loginWait"
       /\ \/ \E tok \in BearerTokens, life \in TokenLifetimes, ids \in LoginSystemLists,
               response \in presences :
               /\ processLoginResponse("ok", tok, life, ids, response)
               /\ extraPumps' = [extraPumps EXCEPT ![i] =
                     IF l.ctx = "refresh"
                       THEN [l EXCEPT !.pc = "retrieveWait", !.ctx = "none", !.retry = 0]
                       ELSE loopSubscribeFrom(l, 1, tok, setOrder(sysOrder, ids, 1))]
          \/ \E r \in StoredLoginOutcomes \ {"ok"}, tok \in BearerTokens,
               life \in TokenLifetimes :
               /\ ExtraMayFail(fail, l)
               /\ processLoginResponse(r, tok, life, <<>>, EmptyObj)
               /\ extraPumps' = [extraPumps EXCEPT ![i] = loopConnectFailed(l, "LOGIN")]
          \/ \E r \in {"noUserToken", "status", "neterr"} :
               /\ ExtraMayFail(fail, l)
               /\ extraPumps' = [extraPumps EXCEPT ![i] =
                     loopConnectFailed(l, IF r = "neterr" THEN "COMMS" ELSE "LOGIN")]
               /\ UNCHANGED <<loginBearerToken, tokenExpiry, systems, sysOrder>>
  /\ UNCHANGED <<certificateToken, deliveries>>
  /\ UNCHANGED extraFrame

\* the answer to a requestData() of subscribe() in the reconnect of a further loop
ExtraSubResponse(fail) ==
  /\ \E i \in 1..Len(extraPumps) :
       LET l == extraPumps[i] IN
       /\ l.pc = "subWait"
       /\ \/ /\ l.subReq = 1
             /\ extraPumps' = [extraPumps EXCEPT ![i] =
                   IF loginBearerToken = NoToken THEN loopEndErr(l)
                   ELSE [l EXCEPT !.subReq = 2]]
          \/ /\ l.subReq = 2
             /\ extraPumps' = [extraPumps EXCEPT ![i] =
                   loopSubscribeFrom(l, l.subPos + 1, loginBearerToken, sysOrder)]
          \/ /\ ExtraMayFail(fail, l)
             /\ extraPumps' = [extraPumps EXCEPT ![i] = loopEndErr(l)]
  /\ UNCHANGED <<certificateToken, loginBearerToken, tokenExpiry, systems, sysOrder,
                 deliveries>>
  /\ UNCHANGED extraFrame

\* the answer to the retrieve request of a further loop: messages, which are
\* processed and delivered to the observers; none; a failure, which messagePump()
\* swallows; or 401, which it throws
ExtraRetrieveResponse(batches, fail) ==
  /\ \E i \in 1..Len(extraPumps) :
       LET l == extraPumps[i] IN
       /\ l.pc = "retrieveWait"
       /\ \/ \E batch \in batches :
               LET res == processBatch(systems, batch, 1, updateCallbacks) IN
               /\ systems' = res.systems
               /\ deliveries' = res.log
               /\ extraPumps' = [extraPumps EXCEPT ![i] = loopEndOk(l)]
          \/ \E r \in {"empty", "204", "status", "neterr"} :
               /\ r \in {"status", "neterr"} => ExtraMayFail(fail, l)
               /\ extraPumps' = [extraPumps EXCEPT ![i] = loopEndOk(l)]
               /\ UNCHANGED <<systems, deliveries>>
          \/ /\ ExtraMayFail(fail, l)
             /\ extraPumps' = [extraPumps EXCEPT ![i] = loopCatch(l, "UNAUTH")]
             /\ UNCHANGED <<systems, deliveries>>
  /\ UNCHANGED <<certificateToken, loginBearerToken, tokenExpiry, sysOrder>>
  /\ UNCHANGED extraFrame

\* the number of loops that are inside messagePump()
pollsInProgress ==
  (IF pumpPc = "retrieveWait" \/ (pumpPc \in Waits /\ connCtx = "refresh") THEN 1 ELSE 0)
    + Cardinality({ i \in 1..Len(extraPumps) :
                      \/ extraPumps[i].pc = "retrieveWait"
                      \/ extraPumps[i].pc \in Waits /\ extraPumps[i].ctx = "refresh" })

\* A client that connects (or leaves it to the pump) and on which startMessagePump
\* is called, and called again; the cloud answers every call of the first loop and
\* may fail those of the further one.
NextPumps ==
  \/ Authenticate
  \/ AuthCallResponse({"ok"})
  \/ Login
  \/ LoginCallResponse({"ok"}, TokenLifetimes, NoPresence)
  \/ StartMessagePump({"ok"})
  \/ StartMessagePumpAgain({"ok", "throws"})
  \/ PumpWake
  \/ AuthResponse(FALSE)
  \/ LoginResponseWith(BearerTokens, NoPresence, FALSE)
  \/ RetrieveResponse(ControlBatches, FALSE)
  \/ ExtraWake
  \/ ExtraAuthResponse(TRUE)
  \/ ExtraLoginResponse(NoPresence, TRUE)
  \/ ExtraSubResponse(TRUE)
  \/ ExtraRetrieveResponse(ControlBatches, TRUE)

SpecPumps == Init /\ [][NextPumps]_vars

(***************************************************************************)
(* initialize(): subscribe to every system, then poll until every system   *)
(* has an active zone or maxWaitTime has passed.                           *)
(***************************************************************************)
maxWaitTime == 30000

\* the time one iteration of the wait loop takes: sleep(1000) and the requests
InitStepsMs == {5000, 10000}
InitTokenLifetimes == {310, 600}
InitBatches ==
  { <<Msg("s1", <<TempData(0)>>)>>, <<Msg("s1", <<NameData(1)>>)>>,
    <<Msg("s2", <<TempData(0)>>)>> }

\* what the calls of initialize() leave alone
initFrame == <<updateCallbacks, pumpPc, connCtx, retry, consecutiveErrors, unauthCounted,
               cycleError, subPos, subReq, onErrorKind, cyc, commsStreak, stopState,
               zvars, wvars, avars, refreshResult, op, outbox, extraPumps>>

getZones_all(syss) ==
  UNION { { [ syss[s].zones[i] EXCEPT !.systemName = syss[s].name,
                                       !.productType = syss[s].productType,
                                       !.numberOfZones = syss[s].numberOfZones ]
            : i \in DOMAIN syss[s].zones } : s \in DOMAIN syss }

\* LennoxS30Client.getZones: the zones it returns, as a set
getZones(syss) ==
  UNION { { [ syss[s].zones[i] EXCEPT !.systemName = syss[s].name,
                                       !.productType = syss[s].productType,
                                       !.numberOfZones = syss[s].numberOfZones ]
            : i \in getActiveZones(syss[s]) } : s \in DOMAIN syss }

\* LennoxS30Client.getZones: the systems after the call, which has written the
\* name, the product type and the number of zones of each system into its active
\* zones (the zones returned are the stored ones)
getZonesStored(syss) ==
  [ s \in DOMAIN syss |->
      [ syss[s] EXCEPT !.zones =
          [ i \in DOMAIN syss[s].zones |->
              IF i \in getActiveZones(syss[s])
                THEN [ syss[s].zones[i] EXCEPT !.systemName = syss[s].name,
                                               !.productType = syss[s].productType,
                                               !.numberOfZones = syss[s].numberOfZones ]
                ELSE syss[s].zones[i] ] ] ]

\* the call client.getZones(), whatever is in flight; op records the zones returned
GetZones ==
  /\ systems' = getZonesStored(systems)
  /\ op' = [name |-> "getZones", zones |-> getZones(systems)]
  /\ UNCHANGED <<certificateToken, loginBearerToken, tokenExpiry, sysOrder, updateCallbacks,
                 nowMs, pumpVars>>
  /\ UNCHANGED <<zvars, wvars, avars, refreshResult, outbox, initPc, init, extraPumps>>

\* allSystemsReady of initialize(): no system without an active zone
allSystemsReady(syss) == \A s \in DOMAIN syss : getActiveZones(syss[s]) # {}

initLoopDecision_throw(now, start, ready) ==
  IF now - start < maxWaitTime THEN (IF ready THEN "return" ELSE "poll") ELSE "throw"

\* the top of the wait loop: `while (Date.now() - startTime < maxWaitTime)`, then
\* `if (allSystemsReady) return`; after the loop the warning and the return
initLoopDecision(now, start, ready) ==
  IF now - start < maxWaitTime THEN (IF ready THEN "return" ELSE "poll") ELSE "timeout"

\* initialize() rejects with the error code err
InitThrow(st, err) == initPc' = "threw" /\ init' = [st EXCEPT !.error = err]

\* `await this.messagePump()` of initialize(), up to the first request
InitPoll(now, st) ==
  IF needsTokenRefresh(now, tokenExpiry)
    THEN initPc' = "authWait" /\ init' = [st EXCEPT !.polls = @ + 1, !.retry = 0]
  ELSE IF loginBearerToken = NoToken
    THEN InitThrow([st EXCEPT !.polls = @ + 1], "UNAUTH")
  ELSE initPc' = "retrieveWait" /\ init' = [st EXCEPT !.polls = @ + 1]

\* one pass through the top of the wait loop at the time now
InitLoop(now, st) ==
  LET d == initLoopDecision(now, st.startTime, allSystemsReady(systems)) IN
  CASE d = "return" -> initPc' = "returned" /\ init' = st
    [] d = "timeout" -> initPc' = "returned" /\ init' = [st EXCEPT !.timedOut = TRUE]
    [] d = "poll" -> InitPoll(now, st)
    [] OTHER -> InitThrow(st, "CONFIG_TIMEOUT")

\* the subscribe loop of initialize() from the system at position k on, then
\* `startTime = Date.now()` and the wait loop
InitSubscribeFrom(k, st) ==
  IF k > Len(sysOrder)
    THEN InitLoop(nowMs, [st EXCEPT !.startTime = nowMs, !.pos = 0, !.req = 0])
  ELSE IF loginBearerToken = NoToken
    THEN InitThrow([st EXCEPT !.subs = Append(@, sysOrder[k])], "UNAUTH")
  ELSE /\ initPc' = "subWait"
       /\ init' = [st EXCEPT !.pos = k, !.req = 1, !.subs = Append(@, sysOrder[k])]

\* the call client.initialize()
Initialize ==
  /\ initPc = "idle"
  /\ InitSubscribeFrom(1, [NoInit EXCEPT !.known = sysOrder])
  /\ UNCHANGED <<certificateToken, loginBearerToken, tokenExpiry, systems, sysOrder,
                 nowMs, deliveries>>
  /\ UNCHANGED initFrame

\* the answer to a requestData() of subscribe() in initialize(); the second
\* requestData() tests the bearer token again
InitSubResponse(fail) ==
  /\ initPc = "subWait"
  /\ \/ /\ init.req = 1
        /\ IF loginBearerToken = NoToken
             THEN InitThrow(init, "UNAUTH")
             ELSE initPc' = "subWait" /\ init' = [init EXCEPT !.req = 2]
     \/ /\ init.req = 2
        /\ InitSubscribeFrom(init.pos + 1, init)
     \/ /\ fail
        /\ InitThrow(init, "COMMS")
  /\ UNCHANGED <<certificateToken, loginBearerToken, tokenExpiry, systems, sysOrder,
                 nowMs, deliveries>>
  /\ UNCHANGED initFrame

\* refreshAuthToken() inside the messagePump() of initialize(): the answer to the
\* pending request of authenticate(), one iteration of its loop; after a 200 with a
\* token login() sends its request
InitAuthResponse(fail) ==
  /\ initPc = "authWait"
  /\ \E r \in (IF fail THEN AuthOutcomes ELSE {"ok"}), cert \in CertificateTokens :
       LET st == authStep(r, init.retry, "") IN
       /\ certificateToken' = CASE st.token = "set" -> cert
                                [] st.token = "clear" -> NoToken
                                [] OTHER -> certificateToken
       /\ IF st.done
            THEN IF st.error # "none" THEN InitThrow(init, st.error)
                 ELSE initPc' = "loginWait" /\ init' = [init EXCEPT !.retry = 0]
          ELSE IF init.retry + 1 >= maxRetries THEN InitThrow(init, "AUTH")
          ELSE initPc' = "authWait" /\ init' = [init EXCEPT !.retry = @ + 1]
  /\ UNCHANGED <<loginBearerToken, tokenExpiry, systems, sysOrder, nowMs, deliveries>>
  /\ UNCHANGED initFrame

\* the answer to the request of that login(); on 200 processLoginResponse runs and
\* messagePump() goes on to its retrieve request
InitLoginResponse(presences, fail) ==
  /\ initPc = "loginWait"
  /\ \/ \E tok \in BearerTokens, life \in InitTokenLifetimes, ids \in LoginSystemLists,
          response \in presences :
          /\ processLoginResponse("ok", tok, life, ids, response)
          /\ initPc' = "retrieveWait"
          /\ UNCHANGED init
     \/ \E r \in StoredLoginOutcomes \ {"ok"}, tok \in BearerTokens,
          life \in InitTokenLifetimes :
          /\ fail
          /\ processLoginResponse(r, tok, life, <<>>, EmptyObj)
          /\ InitThrow(init, "LOGIN")
     \/ \E r \in {"noUserToken", "status", "neterr"} :
          /\ fail
          /\ InitThrow(init, IF r = "neterr" THEN "COMMS" ELSE "LOGIN")
          /\ UNCHANGED <<loginBearerToken, tokenExpiry, systems, sysOrder>>
  /\ UNCHANGED <<certificateToken, nowMs, deliveries>>
  /\ UNCHANGED initFrame

\* the answer to the retrieve request of the messagePump() of initialize(); when
\* messagePump() returns, sleep(1000) starts
InitRetrieveResponse(batches, fail) ==
  /\ initPc = "retrieveWait"
  /\ \/ \E batch \in batches :
          LET res == processBatch(systems, batch, 1, updateCallbacks) IN
          /\ systems' = res.systems
          /\ deliveries' = res.log
          /\ initPc' = "sleep"
          /\ UNCHANGED init
     \/ \E r \in {"empty", "204", "status", "neterr"} :
          /\ r \in {"status", "neterr"} => fail
          /\ initPc' = "sleep"
          /\ UNCHANGED <<init, systems, deliveries>>
     \/ /\ fail
        /\ InitThrow(init, "UNAUTH")
        /\ UNCHANGED <<systems, deliveries>>
  /\ UNCHANGED <<certificateToken, loginBearerToken, tokenExpiry, sysOrder, nowMs>>
  /\ UNCHANGED initFrame

\* sleep(1000) is over: the next pass through the top of the wait loop
InitWake ==
  /\ initPc = "sleep"
  /\ \E d \in InitStepsMs :
       /\ nowMs' = nowMs + d
       /\ InitLoop(nowMs + d, init)
  /\ UNCHANGED <<certificateToken, loginBearerToken, tokenExpiry, systems, sysOrder,
                 deliveries>>
  /\ UNCHANGED initFrame

\* A client on which authenticate() and login() are called (or are not) and then
\* initialize(): the user makes no authenticate() or login() call once initialize()
\* is called, and the answers to the calls made arrive at any moment; shutdown()
\* and getZones() are called at any moment.
NextInit ==
  \/ initPc = "idle" /\ Authenticate
  \/ AuthCallResponse({"ok"})
  \/ initPc = "idle" /\ Login
  \/ LoginCallResponse({"ok"}, InitTokenLifetimes, NoPresence)
  \/ Initialize
  \/ InitSubResponse(TRUE)
  \/ InitAuthResponse(TRUE)
  \/ InitLoginResponse(NoPresence, TRUE)
  \/ InitRetrieveResponse(InitBatches, TRUE)
  \/ InitWake
  \/ Shutdown
  \/ GetZones

SpecInit == Init /\ [][NextInit]_vars

\* Scenario A: the user awaits authenticate() and login() and then calls
\* initialize(), which may refresh the token; getZones() is called at any moment;
\* shutdown() is not called.
NextScenarioA ==
  \/ initPc = "idle" /\ Authenticate
  \/ AuthCallResponse({"ok"})
  \/ initPc = "idle" /\ Login
  \/ LoginCallResponse({"ok"}, InitTokenLifetimes, NoPresence)
  \/ apiCalls["authenticate"].pc # "wait" /\ apiCalls["login"].pc # "wait" /\ Initialize
  \/ InitSubResponse(TRUE)
  \/ InitAuthResponse(TRUE)
  \/ InitLoginResponse(NoPresence, TRUE)
  \/ InitRetrieveResponse(InitBatches, TRUE)
  \/ InitWake
  \/ GetZones

SpecScenarioA == Init /\ [][NextScenarioA]_vars

\* the number of calls of the onError callback made by the cycle that has ended: the
\* one call at the end of the catch block, reached only with a caught error
onErrorCalls ==
  IF pumpPc \in {"sleep", "dead"} /\ cycleError # "none" /\ onErrorKind # "none"
    THEN 1 ELSE 0

\* The client under every failure of the cloud, shutdown and the clock; the
\* messages are kept to one sample and no observer is registered.
Next ==
  \/ StartMessagePump({"none", "ok", "throws"})
  \/ PumpWake
  \/ AuthResponse(TRUE)
  \/ LoginResponse(TRUE)
  \/ SubResponse(TRUE)
  \/ RetrieveResponse(ControlBatches, TRUE)
  \/ Shutdown
  \/ Tick

Spec == Init /\ [][Next]_vars

\* Every request ends (answer, transport error or the request timeout) and the sleep
\* timer fires: the loop is always resumed.
PumpStep ==
  \/ PumpWake
  \/ AuthResponse(TRUE)
  \/ LoginResponse(TRUE)
  \/ SubResponse(TRUE)
  \/ RetrieveResponse(ControlBatches, TRUE)

\* Next with login answers that carry no myPresence
NextLive ==
  \/ StartMessagePump({"none", "ok", "throws"})
  \/ PumpWake
  \/ AuthResponse(TRUE)
  \/ LoginResponseWith(BearerTokens, NoPresence, TRUE)
  \/ SubResponse(TRUE)
  \/ RetrieveResponse(ControlBatches, TRUE)
  \/ Shutdown
  \/ Tick

LiveSpec == Init /\ [][NextLive]_vars /\ WF_vars(PumpStep)

\* The delivery of messages to the data model and the observers: every sample
\* batch and up to MaxObservers observers, the cloud answering every call.
NextData ==
  \/ StartMessagePump({"ok"})
  \/ PumpWake
  \/ AuthResponse(FALSE)
  \/ LoginResponse(FALSE)
  \/ RetrieveResponse(DataBatches, FALSE)
  \/ OnUpdate
  \/ GetZones

SpecData == Init /\ [][NextData]_vars

(***************************************************************************)
(* The zone on its own: fragments applied to one LennoxZone.               *)
(***************************************************************************)
ZoneNext ==
  \/ ZoneUpdate /\ UNCHANGED <<cvars, refreshResult, xvars, wvars, avars>>
  \/ ZoneDiscard /\ UNCHANGED <<cvars, refreshResult, xvars, wvars, avars>>

SpecZone == Init /\ [][ZoneNext]_vars

(***************************************************************************)
(* needsTokenRefresh() on its own, around the refresh instant.             *)
(***************************************************************************)
MaxHalfSeconds == 8
ExpirySamples == {0, 2, 299, 300, 301, 302, 600}

InitToken ==
  /\ ClientNew /\ ZoneInit
  /\ tokenExpiry \in ExpirySamples
  /\ nowMs = 0
  /\ refreshResult = "none"
  /\ XInit

\* one call of needsTokenRefresh()
CheckRefresh ==
  /\ refreshResult' = IF needsTokenRefresh(nowMs, tokenExpiry) THEN "true" ELSE "false"
  /\ UNCHANGED <<cvars, zvars, wvars, avars, xvars>>

\* half a second passes
HalfSecond ==
  /\ nowMs + 500 <= MaxHalfSeconds * 500
  /\ nowMs' = nowMs + 500
  /\ refreshResult' = "none"
  /\ UNCHANGED <<certificateToken, loginBearerToken, tokenExpiry, systems, sysOrder,
                 updateCallbacks, pumpPc, connCtx, retry, consecutiveErrors, unauthCounted, cycleError,
                 subPos, subReq, onErrorKind, cyc, deliveries, commsStreak, stopState>>
  /\ UNCHANGED <<zvars, wvars, avars, xvars>>

TokenNext == CheckRefresh \/ HalfSecond

SpecToken == InitToken /\ [][TokenNext]_vars

(***************************************************************************)
(* Properties                                                              *)
(***************************************************************************)

\* C1 (as claimed): a poll cycle whose retrieve was answered 401 comes to its sleep,
\* from which the next retrieve is issued, only after exactly one reconnect: one
\* authenticate and login sequence, then one subscribe for every known system.
C1_UnauthorizedReconnect ==
  [][ (cyc'.got401 /\ pumpPc \in Waits /\ pumpPc' = "sleep") =>
        /\ cyc'.reconnects = 1
        /\ cyc'.logins = cyc'.refreshes + 1
        /\ cyc'.reconnected
        /\ cyc'.subs = sysOrder'
    ]_vars

\* C2 (as claimed): of consecutive cycles whose retrieve fails with a transport
\* error, the first four trigger no reconnect and the fifth triggers one.
C2_ThresholdReconnect ==
  pumpPc = "sleep" =>
    /\ commsStreak \in 1..(MAX_CONSECUTIVE_ERRORS - 1) => cyc.reconnects = 0
    /\ commsStreak = MAX_CONSECUTIVE_ERRORS => cyc.reconnects = 1

\* C3 (as claimed): once the pump has passed a sleep boundary after shutdown(), it
\* has no request in flight and the token and the systems are cleared.
C3_ShutdownStopsPump ==
  stopState = "boundary" =>
    /\ pumpPc \notin Waits
    /\ loginBearerToken = NoToken
    /\ sysOrder = <<>>

\* C4 (as claimed): a started pump always comes to its sleep again and always starts
\* another cycle after it, whatever fails.
C4_PumpNeverStops ==
  /\ (pumpPc # "idle") ~> (pumpPc = "sleep")
  /\ (pumpPc = "sleep") ~> (pumpPc \in Waits)

\* the same for a pump whose error callback returns or is absent
C4_ReturningCallback ==
  /\ (pumpPc # "idle" /\ onErrorKind # "throws") ~> (pumpPc = "sleep")
  /\ (pumpPc = "sleep") ~> (pumpPc \in Waits)

\* C5 (as claimed): no step but shutdown() removes a system or a zone, or makes an
\* active zone inactive.
C5_ZonesKept ==
  [][ \/ Shutdown
      \/ \A s \in DOMAIN systems :
           /\ s \in DOMAIN systems'
           /\ \A z \in DOMAIN systems[s].zones :
                /\ z \in DOMAIN systems'[s].zones
                /\ isActive(systems[s].zones[z]) => isActive(systems'[s].zones[z])
    ]_vars

\* C6: updateFromData sets exactly the fields present in config, status and
\* status.period (zoneEnabled to `value === 1`) and keeps every other field.
C6_PartialMerge ==
  lastData # NoData =>
    LET c == IF Has(lastData, "config") THEN lastData.config ELSE EmptyObj
        st == IF Has(lastData, "status") THEN lastData.status ELSE EmptyObj
        p == IF Has(st, "period") THEN st.period ELSE EmptyObj
    IN /\ \A f \in ConfigFields \ {"zoneEnabled"} :
            zone[f] = IF Has(c, f) THEN c[f] ELSE prevZone[f]
       /\ zone.zoneEnabled =
            IF Has(c, "zoneEnabled") THEN (c.zoneEnabled = 1) ELSE prevZone.zoneEnabled
       /\ \A f \in StatusFields : zone[f] = IF Has(st, f) THEN st[f] ELSE prevZone[f]
       /\ \A f \in PeriodFields : zone[f] = IF Has(p, f) THEN p[f] ELSE prevZone[f]
       /\ \A f \in {"id", "systemId", "systemName", "productType", "numberOfZones"} :
            zone[f] = prevZone[f]

C6_Witness ==
  /\ lastData = [id |-> 0, status |-> [temperature |-> 70]]
  /\ prevZone.name = "Den" /\ prevZone.minCsp = 65 /\ prevZone.zoneEnabled
  /\ prevZone.systemMode = "heat" /\ prevZone.fanMode = "on"
  /\ prevZone.hsp = 70 /\ prevZone.csp = 75 /\ prevZone.temperature = NULL
  /\ zone = [prevZone EXCEPT !.temperature = 70]

\* C7: a zone is active exactly when some fragment applied to it carried
\* status.temperature: inactive before the first one, active from it on.
C7_ActiveOnceTemperature == isActive(zone) <=> tempSeen

C7_Witness ==
  /\ tempSeen /\ isActive(zone)
  /\ lastData # NoData
  /\ ~(Has(lastData, "status") /\ Has(lastData.status, "temperature"))

\* C8: for every fragment applied, the observers are called only if the zone is
\* active after the merge, and then every registered observer is called once.
C8_ObserversIffActive ==
  \A i \in 1..Len(deliveries) :
    /\ deliveries[i].calls # <<>> => deliveries[i].temperature # NULL
    /\ deliveries[i].temperature # NULL =>
         deliveries[i].calls = Indices(deliveries[i].registered)

C8_Witness ==
  /\ Len(deliveries) = 2
  /\ deliveries[1].temperature = NULL /\ deliveries[1].calls = <<>>
  /\ deliveries[1].registered = 2
  /\ deliveries[2].temperature = 70 /\ deliveries[2].calls = <<1, 2>>

\* C9: with a throwing observer registered, every observer is still called for an
\* active zone's fragment, every fragment of the batch is applied, and the cycle
\* ends without an error and with the failure counter at zero.
C9_ObserverThrowIsolated ==
  (pumpPc = "sleep" /\ cyc.retrieves = 1 /\ \E i \in 1..Len(updateCallbacks) :
                                              updateCallbacks[i] = "throws") =>
    /\ Len(deliveries) = cyc.expected
    /\ \A i \in 1..Len(deliveries) :
         deliveries[i].temperature # NULL =>
           Len(deliveries[i].calls) = deliveries[i].registered
    /\ cycleError = "none"
    /\ consecutiveErrors = 0

C9_Witness ==
  /\ pumpPc = "sleep"
  /\ updateCallbacks = <<"throws", "ok">>
  /\ cyc.expected = 2 /\ Len(deliveries) = 2
  /\ deliveries[1].temperature = 70 /\ deliveries[1].calls = <<1, 2>>
  /\ deliveries[2].calls = <<1, 2>>

\* C10: needsTokenRefresh() is true exactly when now >= expiry - 300 s: false at
\* expiry - 301 s, true at expiry - 300 s and from the expiry on.
C10_RefreshTrigger ==
  refreshResult # "none" =>
    /\ refreshResult = "true" <=> nowMs >= (tokenExpiry - 300) * 1000
    /\ nowMs = (tokenExpiry - 301) * 1000 => refreshResult = "false"
    /\ nowMs = (tokenExpiry - 300) * 1000 => refreshResult = "true"
    /\ nowMs >= tokenExpiry * 1000 => refreshResult = "true"

C10_Witness ==
  /\ refreshResult = "true" /\ tokenExpiry = 301 /\ nowMs = 1000

\* C11: a poll cycle that starts with needsTokenRefresh() true first runs
\* serverConnect() for the refresh; its retrieve request is sent only by the step that
\* completes the refresh's login with a bearer token; a failed refresh sends no
\* retrieve and reaches the pump's catch block (the cycle is counted as failed).
C11_RefreshBeforeRetrieve ==
  [][ /\ (/\ pumpPc \in {"idle", "sleep"} /\ pumpPc' \notin {"idle", "sleep"}
          /\ needsTokenRefresh(nowMs, tokenExpiry))
         => (pumpPc' = "authWait" /\ connCtx' = "refresh" /\ cyc'.retrieves = 0)
      /\ (cyc.refreshes = 1 /\ cyc'.refreshes = 1 /\ cyc.retrieves = 0 /\ cyc'.retrieves = 1)
         => (/\ pumpPc = "loginWait" /\ connCtx = "refresh" /\ cyc.logins = 1
             /\ loginBearerToken' \in BearerTokens)
      /\ (connCtx = "refresh" /\ connCtx' # "refresh" /\ pumpPc' # "retrieveWait")
         => (/\ cycleError' # "none"
             /\ consecutiveErrors' = consecutiveErrors + 1
             /\ cyc'.retrieves = 0)
    ]_vars

C11_Witness ==
  /\ pumpPc = "sleep"
  /\ cyc.refreshes = 1 /\ cyc.logins = 1 /\ cyc.retrieves = 0
  /\ cycleError = "LOGIN" /\ consecutiveErrors = 1

\* C14 (as claimed): when the threshold branch is taken, no Unauthorized cycle is among
\* the failures counted in consecutiveErrors.
C14_UnauthorizedNotCounted ==
  (cyc.reconnects = 1 /\ cycleError \notin {"none", "UNAUTH"}) => ~unauthCounted

\* C15 (as claimed): with an error callback passed, every cycle that ended in an
\* error, a transport error of the retrieve call included, has called it once.
C15_ErrorCallbackEveryFailure ==
  (pumpPc = "sleep" /\ onErrorKind = "ok" /\ (cycleError # "none" \/ commsStreak >= 1))
    => onErrorCalls = 1


\* C12 (as claimed): when every answer is a 200 with a token, another status or a
\* transport error, authenticate() stops at the first 200 after retrying every failed
\* attempt, and after 5 failed attempts fails with AUTHENTICATE_FAILED and the text of
\* the last failure.
C12_AuthenticateRetries ==
  LET call == apiCalls["authenticate"]
      n == Len(call.responses)
  IN (call.pc = "done" /\ \A i \in 1..n : call.responses[i] # "noToken") =>
       /\ call.attempts = n
       /\ \A i \in 1..(n - 1) : call.responses[i] # "ok"
       /\ IF call.responses[n] = "ok"
            THEN call.error = "none"
            ELSE /\ call.error = "AUTH"
                 /\ n = maxRetries
                 /\ call.text = call.responses[n] \o "@" \o ToString(maxRetries - 1)

\* C13: login() throws LOGIN_FAILED without a request when no certificate token is
\* held, and after its one request when the answer is not 200 or is a 200 without
\* a user token.
C13_LoginFailed ==
  LET call == apiCalls["login"] IN
  /\ call.pc = "wait" => call.hadCertificate
  /\ call.pc = "done" =>
       /\ ~call.hadCertificate => (call.error = "LOGIN" /\ call.requests = 0)
       /\ (call.hadCertificate /\ call.response \in {"status", "noUserToken"})
            => (call.error = "LOGIN" /\ call.requests = 1)
       /\ call.error = "none" <=> (call.hadCertificate /\ call.response = "ok")

C13_Witness ==
  /\ apiCalls["login"].pc = "done" /\ ~apiCalls["login"].hadCertificate
  /\ apiCalls["login"].error = "LOGIN" /\ apiCalls["login"].requests = 0
  /\ op.name = "login" /\ loginBearerToken = NoToken


\* the period object of the last body sent
LastPeriod == outbox[Len(outbox)].Data.schedules[1].schedule.periods[1].period

\* C18: every body sent by a command holds one schedules entry and no zones entry,
\* the entry with one period with id 0 and with the id 16 + i for the zone index i
\* of the command (16, 17, 18 for 0, 1, 2), and is addressed to the system of that
\* zone; this whatever was called or answered in between.
C18_ManualScheduleWrite ==
  /\ Len(publishes) = Len(outbox)
  /\ \A i \in 1..Len(outbox) :
       /\ outbox[i].MessageType = "Command"
       /\ DOMAIN outbox[i].Data = {"schedules"}
       /\ Len(outbox[i].Data.schedules) = 1
       /\ outbox[i].Data.schedules[1].id \in {16, 17, 18}
       /\ Len(outbox[i].Data.schedules[1].schedule.periods) = 1
       /\ outbox[i].Data.schedules[1].schedule.periods[1].id = 0
       /\ outbox[i].Data.schedules[1].id = 16 + publishes[i].zone.id
       /\ outbox[i].TargetID = publishes[i].zone.systemId
  /\ (op.name \in {"setHVACMode", "setTemperature", "setFanMode"} /\ op.sent) =>
       /\ outbox[Len(outbox)].Data.schedules[1].id = 16 + op.zone.id
       /\ outbox[Len(outbox)].TargetID = op.zone.systemId

\* a setFanMode for zone 2 of s2 was called while the request of a setTemperature
\* for zone 1 was in flight
C18_Witness ==
  /\ Len(outbox) = 2
  /\ op.name = "setFanMode" /\ op.sent /\ op.zone.id = 2 /\ op.zone.systemId = "s2"
  /\ outbox[2].Data.schedules[1].id = 18 /\ outbox[2].TargetID = "s2"
  /\ outbox[1].Data.schedules[1].id = 17
  /\ "hsp" \in DOMAIN outbox[1].Data.schedules[1].schedule.periods[1].period
  /\ publishes[1].pc = "wait" /\ publishes[2].pc = "wait"

\* c tenths of a degree Celsius is (t / 10 - 32) * 5 / 9 rounded to one decimal
IsCelsiusOf(c, t) == 10 * (t - 320) - 18 * c >= 0 - 9 /\ 10 * (t - 320) - 18 * c < 9

\* C19 (as claimed): the period sent by setTemperature holds, for each setpoint
\* supplied, the Fahrenheit value and its Celsius mirror, and no field of a setpoint
\* that was not supplied.
C19_SetpointPayload ==
  (op.name = "setTemperature" /\ op.sent) =>
    /\ DOMAIN LastPeriod =
         (IF Has(op.args, "hsp") THEN {"hsp", "hspC"} ELSE {})
           \cup (IF Has(op.args, "csp") THEN {"csp", "cspC"} ELSE {})
    /\ Has(op.args, "hsp") =>
         /\ LastPeriod.hsp * 10 = op.args.hsp
         /\ IsCelsiusOf(LastPeriod.hspC, op.args.hsp)
    /\ Has(op.args, "csp") =>
         /\ LastPeriod.csp * 10 = op.args.csp
         /\ IsCelsiusOf(LastPeriod.cspC, op.args.csp)

\* C20 (as claimed): every body sent by publish carries a message id, and no two
\* bodies carry the same one.
C20_FreshMessageId ==
  /\ \A i \in 1..Len(outbox) : Has(outbox[i], "MessageID")
  /\ \A i, j \in 1..Len(outbox) :
       (i # j /\ Has(outbox[i], "MessageID") /\ Has(outbox[j], "MessageID"))
         => outbox[i].MessageID # outbox[j].MessageID


InitPolling == {"authWait", "loginWait", "retrieveWait", "sleep"}

\* C16: initialize() starts no poll cycle before its subscribe loop has ended; it
\* subscribes to one system of the collection at a time, and when the loop ends,
\* every system the client then knows has been subscribed to (those known at the
\* call, in order and once each, when the collection is the one of the call and as
\* many subscribes were made);
\* it polls only within maxWaitTime of startTime; it returns only with every known
\* system ready or with maxWaitTime elapsed, and with maxWaitTime elapsed it returns
\* whatever the zones are; it rejects only with the error of a subscribe or of a
\* poll cycle, never because of the timeout.
C16_InitializeWaits ==
  [][ /\ initPc' = "subWait" => init'.polls = 0
      /\ Initialize => init'.known = sysOrder
      /\ init'.subs # init.subs =>
           \E i \in 1..Len(sysOrder) : init'.subs = Append(init.subs, sysOrder[i])
      /\ (initPc \in {"idle", "subWait"} /\ initPc' \in InitPolling \cup {"returned"}) =>
           /\ \A i \in 1..Len(sysOrder) :
                \E j \in 1..Len(init'.subs) : init'.subs[j] = sysOrder[i]
           /\ (sysOrder = init'.known /\ Len(init'.subs) = Len(init'.known))
                => init'.subs = init'.known
      /\ initPc' \in InitPolling => nowMs' - init'.startTime < maxWaitTime
      /\ (initPc # "returned" /\ initPc' = "returned") =>
           IF init'.timedOut THEN nowMs' - init'.startTime >= maxWaitTime
           ELSE allSystemsReady(systems')
      /\ (initPc = "sleep" /\ initPc' # "sleep" /\ nowMs' - init.startTime >= maxWaitTime) =>
           (initPc' = "returned" /\ init'.timedOut)
      /\ initPc' = "threw" => init'.error \in {"UNAUTH", "COMMS", "AUTH", "LOGIN"}
    ]_vars

C16_Witness ==
  /\ initPc = "returned" /\ init.timedOut
  /\ init.known = <<"s1", "s2">> /\ init.subs = <<"s1", "s2">>
  /\ init.polls >= 2
  /\ ~allSystemsReady(systems)

\* C17: with s1 the one system of the login, initialize() does not return before the
\* timeout while s1 has no active zone, returns at the next pass of its loop once
\* s1 has one, and a getZones() called then returns exactly zone 0, active, with
\* temperature 70.
C17_ScenarioA ==
  [][ (init.known = <<"s1">> /\ sysOrder = <<"s1">> /\ sysOrder' = <<"s1">>) =>
        /\ (initPc = "sleep" /\ initPc' # "sleep" /\ getActiveZones(systems["s1"]) # {})
             => initPc' = "returned"
        /\ (initPc = "sleep" /\ initPc' = "returned" /\ getActiveZones(systems["s1"]) = {})
             => init'.timedOut
        /\ (GetZones /\ initPc = "returned" /\ ~init.timedOut) =>
             /\ Cardinality(op'.zones) = 1
             /\ \A z \in op'.zones :
                  z.id = 0 /\ isActive(z) /\ z.temperature = 70 /\ z.systemId = "s1"
    ]_vars

C17_Witness ==
  /\ initPc = "returned" /\ ~init.timedOut
  /\ init.known = <<"s1">> /\ sysOrder = <<"s1">>
  /\ init.polls >= 2
  /\ DOMAIN systems["s1"].zones = {0, 1}
  /\ op.name = "getZones" /\ Cardinality(op.zones) = 1


\* C21: subscribe and a command (publish) called while no bearer token is held throw
\* Unauthorized at once and make no request; called with a token they send a
\* request.  A non-200 answer or none, to any request, makes the call fail with
\* CommsError; a call succeeds only with every request answered 200 (one for
\* publish, two for subscribe).  The one other end is subscribe finding the token
\* gone (shutdown()) when it comes to its second request: Unauthorized after one
\* request.
C21_UnauthorizedOrComms ==
  [][ /\ (op' # op /\ op'.name = "subscribe") =>
           LET call == apiCalls'["subscribe"] IN
           IF loginBearerToken = NoToken
             THEN call.pc = "done" /\ call.error = "UNAUTH" /\ call.requests = 0
             ELSE call.pc = "wait" /\ call.requests = 1
      /\ (apiCalls["subscribe"].pc = "wait" /\ apiCalls'["subscribe"] # apiCalls["subscribe"]) =>
           LET call == apiCalls'["subscribe"]
               n == Len(call.responses)
           IN /\ n = Len(apiCalls["subscribe"].responses) + 1
              /\ call.responses[n] # "ok" => (call.pc = "done" /\ call.error = "COMMS")
              /\ call.pc = "done" =>
                   /\ call.error = "none" <=>
                        (n = 2 /\ call.responses[1] = "ok" /\ call.responses[2] = "ok")
                   /\ call.error = "UNAUTH" <=>
                        (n = 1 /\ call.responses[1] = "ok" /\ loginBearerToken = NoToken)
                   /\ call.error \in {"none", "COMMS", "UNAUTH"}
              /\ call.requests = IF call.pc = "wait" THEN n + 1 ELSE n
      /\ (op' # op /\ op'.name \in CommandNames) =>
           IF loginBearerToken = NoToken
             THEN op'.error = "UNAUTH" /\ ~op'.sent /\ outbox' = outbox /\ publishes' = publishes
             ELSE /\ op'.sent /\ op'.error = "none"
                  /\ Len(outbox') = Len(outbox) + 1
                  /\ publishes'[Len(publishes')].pc = "wait"
      /\ \A i \in 1..Len(publishes) :
           publishes'[i] # publishes[i] =>
             /\ publishes[i].pc = "wait" /\ publishes'[i].pc = "done"
             /\ publishes'[i].error =
                  IF publishes'[i].response = "ok" THEN "none" ELSE "COMMS"
    ]_vars

\* a subscribe called with a token had its first request answered 200 after a
\* shutdown(), and a setFanMode called after the shutdown() threw Unauthorized
C21_Witness ==
  /\ op.name = "setFanMode" /\ op.error = "UNAUTH" /\ outbox # <<>>
  /\ loginBearerToken = NoToken /\ certificateToken = NoToken
  /\ apiCalls["subscribe"].pc = "done" /\ apiCalls["subscribe"].error = "UNAUTH"
  /\ apiCalls["subscribe"].requests = 1

\* C22: a command makes at most one publish request: the call sends one or none,
\* the answer sends none.  When the request fails the command throws that error
\* (CommsError), and the step leaves the tokens, the systems with their zones and
\* the pump as they were: no retry, no reconnect.  A command that has returned or
\* thrown does nothing more.
C22_CommandFailsOnce ==
  [][ /\ (op' # op /\ op'.name \in CommandNames) =>
           /\ Len(outbox') <= Len(outbox) + 1
           /\ Len(publishes') = Len(outbox')
      /\ Len(publishes') >= Len(publishes)
      /\ \A i \in 1..Len(publishes) :
           /\ publishes[i].pc = "done" => publishes'[i] = publishes[i]
           /\ (publishes[i].pc = "wait" /\ publishes'[i].pc = "done") =>
                /\ outbox' = outbox
                /\ publishes'[i].response # "ok" => publishes'[i].error = "COMMS"
                /\ publishes'[i].error # "none" =>
                     UNCHANGED <<certificateToken, loginBearerToken, tokenExpiry, systems,
                                 sysOrder, pumpPc, apiCalls>>
    ]_vars

\* a setTemperature got no answer while a second command was in flight
C22_Witness ==
  /\ Len(publishes) = 2
  /\ publishes[1].name = "setTemperature" /\ publishes[1].pc = "done"
  /\ publishes[1].response = "neterr" /\ publishes[1].error = "COMMS"
  /\ publishes[2].pc = "wait"
  /\ Len(outbox) = 2 /\ sysOrder = <<"s1", "s2">>

\* C24: a shutdown(), whatever requests are in flight, leaves the client with no
\* certificate token, no bearer token and no system; a second shutdown() right
\* after it (the client is as the first one left it) succeeds and changes nothing.
C24_ShutdownIdempotent ==
  [][ (op' # op /\ op'.name = "shutdown") =>
        /\ certificateToken' = NoToken /\ loginBearerToken' = NoToken
        /\ systems' = EmptyObj /\ sysOrder' = <<>>
        /\ ( /\ op.name = "shutdown"
             /\ certificateToken = NoToken /\ loginBearerToken = NoToken
             /\ systems = EmptyObj /\ sysOrder = <<>> ) =>
             /\ op'.again
             /\ UNCHANGED <<cvars, zvars, wvars, avars, refreshResult, outbox, initPc, init, extraPumps>>
    ]_vars

\* shutdown() was called twice while a publish request and the first request of a
\* subscribe were in flight
C24_Witness ==
  /\ op.name = "shutdown" /\ op.again
  /\ \E i \in 1..Len(publishes) : publishes[i].pc = "wait"
  /\ apiCalls["subscribe"].pc = "wait"
  /\ systems = EmptyObj /\ loginBearerToken = NoToken


\* C23 (as claimed): whatever startMessagePump calls were made, at most one poll
\* cycle of the client is in progress.
C23_SinglePollCycle == pollsInProgress <= 1


\* C25: the fragment just applied to the zone, applied once more, gives the state the
\* zone is in: updateFromData(updateFromData(z, d), d) = updateFromData(z, d) for
\* every fragment d and every state z the zone has reached.
C25_MergeIdempotent ==
  lastData # NoData =>
    /\ zone = updateFromData(prevZone, lastData)
    /\ updateFromData(zone, lastData) = zone

C25_Witness ==
  /\ lastData = [ id |-> 0, config |-> [zoneEnabled |-> 0],
                  status |-> [ temperature |-> 0,
                               period |-> [systemMode |-> "heat", hsp |-> 70] ] ]
  /\ prevZone.zoneEnabled /\ prevZone.temperature = 70 /\ prevZone.name = "Den"
  /\ prevZone.systemMode = "off" /\ prevZone.hsp = 68
  /\ zone # prevZone


\* C26: a getOrCreateZone(id) for an index the system does not have adds exactly one
\* zone, the inactive placeholder with the fixed default values; for an index it has,
\* the call changes neither the map nor the zone; a call repeated changes nothing.
C26_GetOrCreateIdempotent ==
  [][ (op' # op /\ op'.name = "getOrCreateZone") =>
        LET before == op'.before
            after == systems'[op'.sysId]
            id == op'.id
        IN /\ before = systems[op'.sysId]
           /\ id \notin DOMAIN before.zones =>
                /\ DOMAIN after.zones = DOMAIN before.zones \cup {id}
                /\ \A i \in DOMAIN before.zones : after.zones[i] = before.zones[i]
                /\ ~isActive(after.zones[id])
                /\ after.zones[id] =
                     [ id |-> id, name |-> "Zone " \o ToString(id + 1),
                       systemId |-> op'.sysId, systemName |-> "", productType |-> "S30",
                       numberOfZones |-> 1, minCsp |-> 60, temperature |-> NULL,
                       fan |-> FALSE, csp |-> 78, hsp |-> 68, systemMode |-> "off",
                       fanMode |-> "auto", zoneEnabled |-> FALSE ]
                /\ [after EXCEPT !.zones = before.zones] = before
           /\ id \in DOMAIN before.zones => after = before
           /\ getOrCreateZone(after, id) = after
    ]_vars

C26_Witness ==
  /\ op.name = "getOrCreateZone" /\ op.id = 0
  /\ 0 \in DOMAIN op.before.zones /\ op.before.zones[0].temperature = 70
  /\ op.before.zones[0].systemName = "Upstairs"
  /\ systems[op.sysId] = op.before

\* C27: a getZones() call, whatever the pump is doing, returns exactly the zones of
\* the known systems whose temperature has been received (is not null): no
\* placeholder, and every active zone, each once and as the system holds it after
\* the call, with the system's name, product type and number of zones; the call
\* changes nothing else in the systems.
C27_GetZonesActive ==
  [][ GetZones =>
        LET returned == op'.zones
            ids == {<<z.systemId, z.id>> : z \in returned}
        IN /\ ids = UNION { { <<s, i>> : i \in {j \in DOMAIN systems[s].zones :
                                                   systems[s].zones[j].temperature # NULL} }
                            : s \in DOMAIN systems }
           /\ Cardinality(returned) = Cardinality(ids)
           /\ \A z \in returned :
                /\ z.temperature # NULL
                /\ z = systems'[z.systemId].zones[z.id]
                /\ z.systemName = systems[z.systemId].name
                /\ z.productType = systems[z.systemId].productType
                /\ z.numberOfZones = systems[z.systemId].numberOfZones
           /\ DOMAIN systems' = DOMAIN systems
           /\ \A s \in DOMAIN systems :
                /\ [systems'[s] EXCEPT !.zones = systems[s].zones] = systems[s]
                /\ DOMAIN systems'[s].zones = DOMAIN systems[s].zones
                /\ \A i \in DOMAIN systems[s].zones :
                     [ systems'[s].zones[i] EXCEPT
                         !.systemName = systems[s].zones[i].systemName,
                         !.productType = systems[s].zones[i].productType,
                         !.numberOfZones = systems[s].zones[i].numberOfZones ]
                       = systems[s].zones[i]
    ]_vars

\* getZones() was called with an active zone in s1 that still held the system's
\* former name, and a placeholder in s2: one zone returned, under the new name
C27_Witness ==
  /\ op.name = "getZones" /\ Cardinality(op.zones) = 1
  /\ DOMAIN systems = {"s1", "s2"}
  /\ 0 \in DOMAIN systems["s1"].zones /\ systems["s1"].zones[0].temperature = 70
  /\ 0 \in DOMAIN systems["s2"].zones /\ systems["s2"].zones[0].temperature = NULL
  /\ systems["s1"].name = "Upstairs"
  /\ \A z \in op.zones : z.systemName = "Upstairs"
  /\ cyc.batch # <<>> /\ cyc.batch[1] = SystemNameMessage

\* C28 (as claimed): after processMessage with a system-level fragment, every system
\* field present in its config or status has the fragment's value and every field
\* the fragment omits has the value it had before.
C28_SystemFieldByField ==
  (op.name = "processMessage" /\ Has(op.message.Data, "system")) =>
    LET before == op.before
        after == systems[op.sysId]
        frag == op.message.Data.system
        config == IF Has(frag, "config") THEN frag.config ELSE EmptyObj
        status == IF Has(frag, "status") THEN frag.status ELSE EmptyObj
    IN /\ \A f \in {"name", "temperatureUnit"} :
            after[f] = IF Has(config, f) THEN config[f] ELSE before[f]
       /\ \A f \in {"outdoorTemperature", "numberOfZones"} :
            after[f] = IF Has(status, f) THEN status[f] ELSE before[f]
       /\ after.productType =
            IF Has(config, "options") /\ Has(config.options, "productType")
              THEN config.options.productType ELSE before.productType
       /\ after.zones = before.zones


\* C29: while a reconnect of the pump runs the failure counter keeps its value; the
\* step that ends the reconnect sets it to zero exactly when the reconnect completed,
\* which takes an authenticate and a login answered with tokens and a subscribe for
\* every known system; a step that ends it by a failure leaves the counter alone and
\* starts no further login or subscribe.
C29_ReconnectResetsCounter ==
  [][ connCtx = "reconnect" =>
        /\ consecutiveErrors >= 1
        /\ connCtx' = "reconnect" => consecutiveErrors' = consecutiveErrors
        /\ connCtx' # "reconnect" =>
             /\ consecutiveErrors' = 0 <=> cyc'.reconnected
             /\ cyc'.reconnected =>
                  /\ pumpPc \in {"loginWait", "subWait"}
                  /\ cyc'.logins >= 1
                  /\ \A i \in 1..Len(sysOrder') :
                       \E j \in 1..Len(cyc'.subs) : cyc'.subs[j] = sysOrder'[i]
             /\ ~cyc'.reconnected =>
                  /\ consecutiveErrors' = consecutiveErrors
                  /\ cyc'.logins = cyc.logins /\ cyc'.subs = cyc.subs
                  /\ pumpPc' \in {"sleep", "dead"}
    ]_vars

C29_Witness ==
  /\ pumpPc = "sleep" /\ consecutiveErrors = 0
  /\ cycleError \in {"AUTH", "LOGIN", "COMMS"}
  /\ cyc.reconnects = 1 /\ cyc.reconnected /\ cyc.subs = <<"s1", "s2">>

\* a step in which a call of authenticate, login, subscribe or retrieve fails and
\* the failure reaches the pump
PumpFailure ==
  \/ cyc'.netFail /\ ~cyc.netFail
  \/ cyc'.got401 /\ ~cyc.got401
  \/ consecutiveErrors' > consecutiveErrors

\* the pump is past a reconnect that failed
FailedReconnect ==
  pumpPc \in {"sleep", "dead"} /\ cyc.reconnects = 1 /\ ~cyc.reconnected

\* the pump has completed a reconnect or a poll cycle and the counter is zero
Recovered ==
  /\ pumpPc = "sleep" /\ consecutiveErrors = 0
  /\ cyc.reconnected \/ (cyc.retrieves = 1 /\ ~cyc.got401)

\* C30 (as claimed): if from some point on no call fails, then after every failed
\* reconnect the pump eventually completes a reconnect or a poll cycle with the
\* failure counter at zero.
C30_RetriesAfterFailedReconnect ==
  (<>[][~PumpFailure]_vars) => [](FailedReconnect => <>Recovered)

\* the same for a pump whose error callback returns or is absent
C30_ReturningCallback ==
  (<>[][~PumpFailure]_vars) =>
     []((FailedReconnect /\ onErrorKind # "throws") => <>Recovered)


(***************************************************************************)
(* The pump with observers and an error callback, under every failure of   *)
(* the cloud.                                                              *)
(***************************************************************************)
NextPoll ==
  \/ StartMessagePump({"ok"})
  \/ PumpWake
  \/ AuthResponse(TRUE)
  \/ LoginResponse(TRUE)
  \/ SubResponse(TRUE)
  \/ RetrieveResponse(ControlBatches, TRUE)
  \/ OnUpdate

SpecPoll == Init /\ [][NextPoll]_vars

\* C31: the step in which the retrieve request is answered with no messages (200
\* with an empty list, or 204) leaves the systems and their zones as they were,
\* calls no observer and no error callback, sets the failure counter to zero and
\* ends the cycle in the sleep without an error.
C31_EmptyCycleIsNoError ==
  [][ (pumpPc = "retrieveWait" /\ cyc'.answer = "none")
        => /\ systems' = systems
           /\ deliveries' = <<>>
           /\ consecutiveErrors' = 0
           /\ cycleError' = "none"
           /\ onErrorCalls' = 0
           /\ pumpPc' = "sleep" ]_vars

C31_Witness ==
  /\ pumpPc = "sleep" /\ cyc.answer = "none" /\ cyc.failedBefore
  /\ consecutiveErrors = 0
  /\ onErrorKind = "ok" /\ Len(updateCallbacks) >= 1
  /\ \E s \in DOMAIN systems : DOMAIN systems[s].zones # {}


(***************************************************************************)
(* The delivery of batches of several messages.                            *)
(***************************************************************************)
NextBatch ==
  \/ StartMessagePump({"ok"})
  \/ PumpWake
  \/ AuthResponse(FALSE)
  \/ LoginResponse(FALSE)
  \/ RetrieveResponse(OrderBatches, FALSE)
  \/ OnUpdate

SpecBatch == Init /\ [][NextBatch]_vars

ZoneDataFields == ConfigFields \cup StatusFields \cup PeriodFields

\* whether the fragment d carries the field f, and the value it carries
FragHas(d, f) ==
  IF f \in ConfigFields THEN Has(d, "config") /\ Has(d.config, f)
  ELSE IF f \in StatusFields THEN Has(d, "status") /\ Has(d.status, f)
  ELSE Has(d, "status") /\ Has(d.status, "period") /\ Has(d.status.period, f)

FragValue(d, f) ==
  IF f = "zoneEnabled" THEN d.config.zoneEnabled = 1
  ELSE IF f \in ConfigFields THEN d.config[f]
  ELSE IF f \in StatusFields THEN d.status[f]
  ELSE d.status.period[f]

\* the zone fragments of a batch in the order received, each with the sender id of
\* its message, for the systems in known
RECURSIVE ReceivedFragments(_, _, _)
ReceivedFragments(known, messages, k) ==
  IF k > Len(messages) THEN <<>>
  ELSE LET m == messages[k] IN
       (IF /\ knownSender(m, known)
           /\ Has(m, "Data") /\ Has(m.Data, "zones")
          THEN [j \in 1..Len(m.Data.zones) |-> [sysId |-> senderId(m), data |-> m.Data.zones[j]]]
          ELSE <<>>)
       \o ReceivedFragments(known, messages, k + 1)

\* the position of the last fragment for zone i of system s that carries f, or 0
LastWith(frags, s, i, f) ==
  LET js == {j \in 1..Len(frags) :
               frags[j].sysId = s /\ frags[j].data.id = i /\ FragHas(frags[j].data, f)}
  IN IF js = {} THEN 0 ELSE CHOOSE j \in js : \A h \in js : h <= j

\* C33: in the step that applies a retrieved batch, the observers are notified
\* fragment by fragment in the order received (message by message, and within a
\* message in list order); afterwards the zones are those there before and those
\* named by a fragment, and every field of every zone holds the value of the last
\* fragment in that order that carried it, or else the value it had before (for a
\* zone created by the batch: the value of a new zone).
C33_LastFragmentWins ==
  [][ (pumpPc = "retrieveWait" /\ cyc'.answer = "messages")
        => LET frags == ReceivedFragments(DOMAIN systems, cyc'.batch, 1) IN
           /\ DOMAIN systems' = DOMAIN systems
           /\ Len(deliveries') = Len(frags)
           /\ \A j \in 1..Len(frags) :
                /\ deliveries'[j].sysId = frags[j].sysId
                /\ deliveries'[j].id = frags[j].data.id
           /\ \A s \in DOMAIN systems :
                /\ DOMAIN systems'[s].zones =
                     DOMAIN systems[s].zones
                       \cup {frags[j].data.id : j \in {h \in 1..Len(frags) : frags[h].sysId = s}}
                /\ \A i \in DOMAIN systems'[s].zones :
                     LET base == IF i \in DOMAIN systems[s].zones THEN systems[s].zones[i]
                                 ELSE LennoxZone(i, "Zone " \o ToString(i + 1), s)
                     IN /\ systems'[s].zones[i].id = i
                        /\ systems'[s].zones[i].systemId = s
                        /\ \A f \in ZoneDataFields :
                             systems'[s].zones[i][f] =
                               IF LastWith(frags, s, i, f) = 0 THEN base[f]
                               ELSE FragValue(frags[LastWith(frags, s, i, f)].data, f) ]_vars

\* two messages for one zone were applied: the temperature is that of the second
\* message, the setpoint that of the first (the second carried none), the name the
\* one the zone had
C33_Witness ==
  /\ pumpPc = "sleep" /\ cyc.answer = "messages"
  /\ cyc.batch = <<Msg("s1", <<FragA>>), Msg("s1", <<FragB>>)>>
  /\ systems["s1"].zones[0].temperature = 72
  /\ systems["s1"].zones[0].hsp = 66
  /\ systems["s1"].zones[0].name = "Zone 1"


\* C36: in the step that applies a retrieved batch, the messages without a sender
\* id, with a sender id that is no key of the systems, or without Data leave no
\* trace: the systems, their zones and the observer notifications are those of the
\* batch without these messages (every other message is processed), and when the
\* batch holds only such messages nothing changes and no observer is called.
C36_IgnoredMessages ==
  [][ (pumpPc = "retrieveWait" /\ cyc'.answer = "messages")
        => LET Processed(m) == knownSender(m, DOMAIN systems) /\ Has(m, "Data")
               kept == SelectSeq(cyc'.batch, Processed)
               res == processBatch(systems, kept, 1, updateCallbacks)
           IN /\ systems' = res.systems
              /\ deliveries' = res.log
              /\ Len(deliveries') = Len(ReceivedFragments(DOMAIN systems, kept, 1))
              /\ kept = <<>> => (systems' = systems /\ deliveries' = <<>>) ]_vars

\* a message without Data between two messages for zone 0: both were applied
C36_Witness ==
  /\ pumpPc = "sleep" /\ cyc.answer = "messages"
  /\ cyc.batch = <<Msg("s1", <<FragA>>), [SenderID |-> "s1"], Msg("s1", <<FragB>>)>>
  /\ systems["s1"].zones[0].temperature = 72
  /\ systems["s1"].zones[0].hsp = 66
  /\ Len(deliveries) = 2 /\ Len(updateCallbacks) >= 1


\* C34 (as claimed): when the error callback passed to startMessagePump throws, the
\* pump is not terminated: after the call of the callback the loop is in its sleep,
\* from which the next cycle starts.
C34_ThrowingCallbackKeepsPump ==
  (onErrorKind = "throws" /\ onErrorCalls = 1) => pumpPc = "sleep"


(***************************************************************************)
(* Commands called while the pump refreshes the token or reconnects, the   *)
(* cloud failing authenticate and login requests and issuing a different   *)
(* token at a later login.                                                 *)
(***************************************************************************)
RefreshTokens == {"tokA", "tokB"}
RefreshZones == {LennoxZone(0, "Zone 1", "s1")}

NextRefresh ==
  \/ StartMessagePump({"ok"})
  \/ PumpWake
  \/ AuthResponse(TRUE)
  \/ LoginResponseWith(RefreshTokens, NoPresence, TRUE)
  \/ SubResponse(FALSE)
  \/ RetrieveResponse(ControlBatches, FALSE)
  \/ SetFanModeFor(RefreshZones)
  \/ PublishResponse(PublishOutcomes)
  \/ Tick

SpecRefresh == Init /\ [][NextRefresh]_vars

\* C35 (as claimed): a step in which a serverConnect() of the pump fails (in a refresh or a
\* reconnect) leaves the bearer token, its expiry and the systems as they were; a
\* bearer token once held is never absent (no shutdown() is called), and it
\* changes only in the step of a successful login, to the token of that login; a
\* command called while a token is held, also during a refresh or reconnect, is
\* sent, with the token held at that moment (the old one before that step, the new
\* one after it).
C35_FailedConnectKeepsSession ==
  [][ /\ (cyc'.failedConnects = cyc.failedConnects + 1)
           => UNCHANGED <<loginBearerToken, tokenExpiry, systems, sysOrder>>
      /\ loginBearerToken # NoToken => loginBearerToken' # NoToken
      /\ loginBearerToken' # loginBearerToken
           => /\ pumpPc = "loginWait" /\ loginBearerToken' \in RefreshTokens
              /\ cyc'.failedConnects = cyc.failedConnects
      /\ (op' # op /\ loginBearerToken # NoToken)
           => /\ op'.sent /\ op'.error # "UNAUTH"
              /\ op'.auth = loginBearerToken /\ op'.auth = loginBearerToken' ]_vars

(***************************************************************************)
(* The pump, commands and shutdown() interleaved.                          *)
(***************************************************************************)
NextConc ==
  \/ StartMessagePump({"ok"})
  \/ PumpWake
  \/ AuthResponse(FALSE)
  \/ LoginResponse(FALSE)
  \/ SubResponse(FALSE)
  \/ RetrieveResponse(ControlBatches, TRUE)
  \/ SetFanModeFor(RefreshZones)
  \/ PublishResponse(PublishOutcomes)
  \/ Shutdown

SpecConc == Init /\ [][NextConc]_vars

\* C37: every retrieve and request-data request of the current poll cycle and every
\* publish request of a command, answered or in flight, carried a bearer token, and
\* every login request of the cycle a certificate token, whatever shutdown() calls
\* and commands were interleaved with the pump.
C37_RequestsCarryTokens ==
  /\ \A a \in cyc.auths : a[2] # NoToken
  /\ \A i \in 1..Len(publishes) : publishes[i].auth # NoToken
  /\ (op.name \in CommandNames /\ op.sent) => op.auth # NoToken

\* shutdown() was called during a reconnect, between the two requests of a
\* subscribe, and while the request of a command was in flight: the login and the
\* first request-data carried tokens, the second request-data was not sent, the
\* command's request carried the token and was answered after the shutdown()
C37_Witness ==
  /\ loginBearerToken = NoToken /\ stopState # "no"
  /\ cyc.reconnects = 1 /\ Len(cyc.subs) = 1 /\ pumpPc = "sleep"
  /\ cyc.auths = {<<"login", "cert">>, <<"requestData", "tokA">>}
  /\ op.name = "setFanMode" /\ op.sent /\ op.auth = "tokA"
  /\ Len(publishes) = 2
  /\ publishes[1].pc = "done" /\ publishes[1].auth = "tokA"
  /\ publishes[2].pc = "wait"


(***************************************************************************)
(* Thermostat: the HomeKit handlers that issue setTemperature commands.    *)
(* HomeKit values are degrees Celsius in tenths, setpoints whole degrees   *)
(* Fahrenheit.                                                             *)
(***************************************************************************)
\* Thermostat.toFahrenheit(c) for c = ct / 10: Math.round(c * 9 / 5 + 32)
toFahrenheit(ct) == (18 * ct + 3250) \div 100

NoCommand == [issued |-> FALSE]

setTargetTemperature_noDeadband(z, ct) ==
  LET tempF == toFahrenheit(ct) IN
  IF z.systemMode = "heat" THEN [issued |-> TRUE, hsp |-> tempF, csp |-> z.csp]
  ELSE IF z.systemMode = "cool" THEN [issued |-> TRUE, hsp |-> z.hsp, csp |-> tempF]
  ELSE NoCommand

\* Thermostat.setTargetTemperature(value) for the zone z: the options of the
\* client.setTemperature call it makes, if any
setTargetTemperature(z, ct) ==
  LET tempF == toFahrenheit(ct) IN
  IF z.systemMode = "off" \/ z.systemMode = "heat and cool" THEN NoCommand
  ELSE IF z.systemMode = "heat"
    THEN [issued |-> TRUE, hsp |-> tempF,
          csp |-> IF z.csp < tempF + 3 THEN tempF + 3 ELSE z.csp]
  ELSE IF z.systemMode = "cool"
    THEN [issued |-> TRUE, hsp |-> IF z.hsp > tempF - 3 THEN tempF - 3 ELSE z.hsp,
          csp |-> tempF]
  ELSE NoCommand

\* Thermostat.setHeatingThresholdTemperature(value)
setHeatingThresholdTemperature(z, ct) ==
  LET tempF == toFahrenheit(ct) IN
  [issued |-> TRUE, hsp |-> tempF, csp |-> IF z.csp < tempF + 3 THEN tempF + 3 ELSE z.csp]

\* Thermostat.setCoolingThresholdTemperature(value)
setCoolingThresholdTemperature(z, ct) ==
  LET tempF == toFahrenheit(ct) IN
  [issued |-> TRUE, hsp |-> IF z.hsp > tempF - 3 THEN tempF - 3 ELSE z.hsp, csp |-> tempF]

\* values HomeKit passes (10.0 to 30.0 degrees Celsius) and setpoints the zone may
\* hold, also with a gap below three degrees or inverted
CelsiusSamples == {100, 205, 210, 215, 220, 225, 300}
StoredHsp == {50, 68, 70, 72, 86}
StoredCsp == {52, 70, 72, 75, 88}
ThermostatModes == {"off", "heat", "cool", "heat and cool", "emergency heat"}
ThermostatZones ==
  { [LennoxZone(0, "Zone 1", "s1") EXCEPT !.hsp = h, !.csp = c, !.systemMode = m] :
      h \in StoredHsp, c \in StoredCsp, m \in ThermostatModes }

InitThermostat ==
  /\ ClientInit
  /\ zone \in ThermostatZones /\ prevZone = zone /\ lastData = NoData /\ tempSeen = FALSE
  /\ refreshResult = "none"
  /\ XInit

\* a handler is called with the value ct; op records the call and the command
HandlerCall(name, ct, command) ==
  /\ op' = [name |-> name, value |-> ct, command |-> command]
  /\ UNCHANGED <<cvars, zvars, wvars, avars, refreshResult, outbox, initPc, init, extraPumps>>

SetTargetTemperature ==
  \E ct \in CelsiusSamples :
    HandlerCall("setTargetTemperature", ct, setTargetTemperature(zone, ct))

SetHeatingThresholdTemperature ==
  \E ct \in CelsiusSamples :
    HandlerCall("setHeatingThresholdTemperature", ct, setHeatingThresholdTemperature(zone, ct))

SetCoolingThresholdTemperature ==
  \E ct \in CelsiusSamples :
    HandlerCall("setCoolingThresholdTemperature", ct, setCoolingThresholdTemperature(zone, ct))

\* Thermostat.updateFromZone(zone): the platform hands over the zone of an update
UpdateFromZone ==
  /\ \E z \in ThermostatZones : zone' = z /\ prevZone' = z
  /\ UNCHANGED <<lastData, tempSeen>>
  /\ UNCHANGED <<cvars, wvars, avars, refreshResult, xvars>>

NextThermostat ==
  \/ UpdateFromZone
  \/ SetTargetTemperature
  \/ SetHeatingThresholdTemperature
  \/ SetCoolingThresholdTemperature

SpecThermostat == InitThermostat /\ [][NextThermostat]_vars

ThermostatHandlers ==
  {"setTargetTemperature", "setHeatingThresholdTemperature", "setCoolingThresholdTemperature"}

\* C32: the setTemperature command a Thermostat handler issues carries a cooling
\* setpoint at least three degrees Fahrenheit above its heating setpoint, whatever
\* setpoints the zone holds and whatever value is requested.
C32_Deadband ==
  (op.name \in ThermostatHandlers /\ op.command.issued)
    => op.command.csp >= op.command.hsp + 3

\* the zone holds a heating setpoint above the requested cooling threshold of
\* 22.0 degrees Celsius (72 F): the command lowers it to 69
C32_Witness ==
  /\ op.name = "setCoolingThresholdTemperature" /\ op.value = 220
  /\ zone.hsp = 86
  /\ op.command = [issued |-> TRUE, hsp |-> 69, csp |-> 72]


(***************************************************************************)
(* LennoxWifiClient: the polling loop.                                     *)
(***************************************************************************)
MaxPollLoops == 3

\* what the Wifi client's own actions leave alone
wifiFrame == <<cvars, zvars, refreshResult, xvars, avars>>

\* a loop created by startMessagePump, suspended in `await this.pollAllZones()`;
\* stopped records a shutdown() during the loop's life, resumed a poll started
\* after it
NewPollLoop == [pc |-> "polling", stopped |-> FALSE, resumed |-> FALSE]

\* LennoxWifiClient.startMessagePump: returns when isPolling is set; else sets it
\* and runs poll(), which passes its first loop check and calls pollAllZones()
WifiStartMessagePump ==
  /\ Len(pollLoops) < MaxPollLoops
  /\ IF isPolling THEN UNCHANGED <<isPolling, pollLoops>>
     ELSE /\ isPolling' = TRUE
          /\ pollLoops' = Append(pollLoops, NewPollLoop)
  /\ UNCHANGED <<wifiZones, discovered, tStatInfo, wifiCalls, wifiFrame>>

\* pollAllZones() has returned (it catches the errors of every request itself):
\* the loop sleeps
WifiPollReturns ==
  /\ \E i \in 1..Len(pollLoops) :
       /\ pollLoops[i].pc = "polling"
       /\ pollLoops' = [pollLoops EXCEPT ![i].pc = "sleep"]
  /\ UNCHANGED <<isPolling, wifiZones, discovered, tStatInfo, wifiCalls, wifiFrame>>

\* the sleep of a loop is over: `while (this.isPolling)` is evaluated
WifiSleepOver ==
  /\ \E i \in 1..Len(pollLoops) :
       /\ pollLoops[i].pc = "sleep"
       /\ pollLoops' =
            [pollLoops EXCEPT ![i] =
               IF isPolling THEN [@ EXCEPT !.pc = "polling", !.resumed = @ \/ pollLoops[i].stopped]
               ELSE [@ EXCEPT !.pc = "exited"]]
  /\ UNCHANGED <<isPolling, wifiZones, discovered, tStatInfo, wifiCalls, wifiFrame>>

\* LennoxWifiClient.shutdown
WifiShutdown ==
  /\ isPolling' = FALSE
  /\ wifiZones' = <<>>
  /\ pollLoops' = [i \in 1..Len(pollLoops) |->
                     IF pollLoops[i].pc = "exited" THEN pollLoops[i]
                     ELSE [pollLoops[i] EXCEPT !.stopped = TRUE]]
  /\ UNCHANGED <<discovered, tStatInfo, wifiCalls, wifiFrame>>

NextWifiPump ==
  \/ WifiStartMessagePump
  \/ WifiPollReturns
  \/ WifiSleepOver
  \/ WifiShutdown

SpecWifiPump == Init /\ [][NextWifiPump]_vars

\* C38 (as claimed): whatever startMessagePump and shutdown calls were made, at
\* most one loop is inside pollAllZones(), and no loop that was running when
\* shutdown() was called has started another poll.
C38_OneLoopAlive ==
  /\ Cardinality({i \in 1..Len(pollLoops) : pollLoops[i].pc = "polling"}) <= 1
  /\ \A i \in 1..Len(pollLoops) : ~pollLoops[i].resumed


(***************************************************************************)
(* Zone keys.  A gateway serial number or system id is a sequence of       *)
(* characters, a zone number a natural number.                             *)
(***************************************************************************)
\* String(n) for a zone number below 100
NumberChars(n) ==
  IF n < 10 THEN <<ToString(n)>> ELSE <<ToString(n \div 10), ToString(n % 10)>>

IsNoHyphen(c) == c # "-"

\* uniqueId of WifiThermostatZone and LennoxZone, and the key pollAllZones looks
\* up: `${systemId}_zone_${id}`.replace(/-/g, '')
uniqueId(systemId, id) ==
  SelectSeq(systemId \o <<"_", "z", "o", "n", "e", "_">> \o NumberChars(id), IsNoHyphen)

WifiGateways ==
  { <<"A", "B", "-", "1">>, <<"A", "-", "B", "1">>, <<"A", "B", "1">>, <<"C", "2">> }
ZoneNumbers == {0, 11}

\* the body of the loop of initialize() for one enabled thermostat of a gateway:
\* a new zone is stored under its uniqueId
WifiDiscover(gateways) ==
  /\ \E g \in gateways, n \in ZoneNumbers :
       /\ <<g, n>> \notin discovered
       /\ discovered' = discovered \cup {<<g, n>>}
       /\ wifiZones' = With(wifiZones, uniqueId(g, n), [systemId |-> g, id |-> n])
  /\ UNCHANGED <<isPolling, pollLoops, tStatInfo, wifiCalls, wifiFrame>>

NextUniqueId ==
  \/ WifiDiscover(WifiGateways)

SpecUniqueId == Init /\ [][NextUniqueId]_vars

\* C40 (as claimed): the zones stored for different (system id, zone number) pairs
\* have different uniqueIds.
C40_UniqueIdInjective ==
  \A p \in discovered, q \in discovered :
    p # q => uniqueId(p[1], p[2]) # uniqueId(q[1], q[2])

(***************************************************************************)
(* LennoxWifiClient: setHVACMode and setTemperature, each a fetch of the   *)
(* thermostat record followed by a write of the whole record.              *)
(***************************************************************************)
CommandGateway == <<"C", "2">>
CommandZone == [systemId |-> CommandGateway, id |-> 0]
WifiModeSamples == {"heat", "cool"}
WifiTemperatureOptions ==
  {[hsp |-> 70], [csp |-> 76], [hsp |-> 70, csp |-> 76]}
WifiOutcomes == {"ok", "error"}

\* the switch of setHVACMode
operationMode(mode) ==
  CASE mode = "off" -> 0
    [] mode = "heat" -> 1
    [] mode = "cool" -> 2
    [] mode = "heat and cool" -> 3
    [] OTHER -> 0

\* newSettings of setHVACMode and of setTemperature for the record fetched
newSettings(name, tstat, arg) ==
  IF name = "setHVACMode" THEN [tstat EXCEPT !.Operation_Mode = operationMode(arg)]
  ELSE LET t1 == IF Has(arg, "hsp") THEN [tstat EXCEPT !.Heat_Set_Point = arg.hsp] ELSE tstat
       IN IF Has(arg, "csp") THEN [t1 EXCEPT !.Cool_Set_Point = arg.csp] ELSE t1

\* the call up to its first await: the zone is looked up and the fetch is sent
WifiCall(name, z, arg) ==
  /\ wifiCalls[name].pc = "idle"
  /\ wifiCalls' = [wifiCalls EXCEPT ![name] =
                     IF uniqueId(z.systemId, z.id) \in DOMAIN wifiZones
                       THEN [pc |-> "fetchWait", zone |-> z, arg |-> arg]
                       ELSE [pc |-> "threw", zone |-> z, arg |-> arg]]
  /\ UNCHANGED <<isPolling, pollLoops, wifiZones, discovered, tStatInfo, wifiFrame>>

WifiSetHVACMode == \E mode \in WifiModeSamples : WifiCall("setHVACMode", CommandZone, mode)

WifiSetTemperature ==
  \E options \in WifiTemperatureOptions : WifiCall("setTemperature", CommandZone, options)

\* the answer to getThermostatInfoList: the record the service holds now; the
\* call builds newSettings and sends setThermostatInfo
WifiFetchResponse ==
  /\ \E name \in WifiCommands, r \in WifiOutcomes :
       /\ wifiCalls[name].pc = "fetchWait"
       /\ wifiCalls' = [wifiCalls EXCEPT ![name] =
            IF r = "ok" /\ tStatInfo.Zone_Number = wifiCalls[name].zone.id
              THEN [@ EXCEPT !.pc = "writeWait"] @@
                   [settings |-> newSettings(name, tStatInfo, wifiCalls[name].arg)]
              ELSE [@ EXCEPT !.pc = "threw"]]
  /\ UNCHANGED <<isPolling, pollLoops, wifiZones, discovered, tStatInfo, wifiFrame>>

\* the answer to setThermostatInfo: the service has stored the record sent
WifiWriteResponse ==
  /\ \E name \in WifiCommands, r \in WifiOutcomes :
       /\ wifiCalls[name].pc = "writeWait"
       /\ IF r = "ok"
            THEN /\ tStatInfo' = wifiCalls[name].settings
                 /\ wifiCalls' = [wifiCalls EXCEPT ![name].pc = "done"]
            ELSE /\ UNCHANGED tStatInfo
                 /\ wifiCalls' = [wifiCalls EXCEPT ![name].pc = "threw"]
  /\ UNCHANGED <<isPolling, pollLoops, wifiZones, discovered, wifiFrame>>

NextWifiCmd ==
  \/ WifiDiscover({CommandGateway})
  \/ WifiSetHVACMode
  \/ WifiSetTemperature
  \/ WifiFetchResponse
  \/ WifiWriteResponse

SpecWifiCmd == Init /\ [][NextWifiCmd]_vars

\* C39 (as claimed): once setHVACMode and setTemperature have both returned, the
\* record on the service holds the mode of the one and the setpoints of the other.
C39_BothChangesInEffect ==
  (wifiCalls["setHVACMode"].pc = "done" /\ wifiCalls["setTemperature"].pc = "done")
    => LET options == wifiCalls["setTemperature"].arg IN
       /\ tStatInfo.Operation_Mode = operationMode(wifiCalls["setHVACMode"].arg)
       /\ Has(options, "hsp") => tStatInfo.Heat_Set_Point = options.hsp
       /\ Has(options, "csp") => tStatInfo.Cool_Set_Point = options.csp

=============================================================================
